---- MODULE Spec2Model ----
(***************************************************************************)
(* State-machine model of the EnOcean dongle packet processor and device   *)
(* profile registry (custom_components/enocean/dongle.py) together with    *)
(* the discovery handler of custom_components/enocean/__init__.py and the  *)
(* entity receive filter of custom_components/enocean/entity.py.           *)
(*                                                                         *)
(* Two threads are modelled: the serial I/O thread, which runs callback()  *)
(* once per telegram, and the event loop, which runs the callables that    *)
(* were handed to call_soon_threadsafe in FIFO order, the learning-mode    *)
(* operations, the setup sequence and the discovery handler tasks.         *)
(***************************************************************************)
EXTENDS Integers, Sequences, FiniteSets, TLC

(***************************************************************************)
(* Bounds of the model                                                     *)
(***************************************************************************)
MaxQueue == 5
MaxTelegrams == 2
MaxHandlers == 1
MaxTasks == 2
MaxDiscoveryTasks == 2

(***************************************************************************)
(* Program constants                                                       *)
(***************************************************************************)
RORG_UTE == 212
RORG_MSC == 209
RORG_BS4 == 165
VentilairsecManufacturer == 121
ControllerRorg == 856185
ControllerFunc == 1
SensorInventoryCmd == 8
_dongle_reset_threshold == 5
_learning_duration == 10
CO_WR_RESET == 2

\* Python's None for integer-valued attributes; None for a list is <<>>.
None == 0 - 1

(***************************************************************************)
(* Text conversions.  A string is a sequence of one-character strings.     *)
(***************************************************************************)
HexChars == <<"0", "1", "2", "3", "4", "5", "6", "7",
              "8", "9", "a", "b", "c", "d", "e", "f">>
DecChars == <<"0", "1", "2", "3", "4", "5", "6", "7", "8", "9">>

RECURSIVE Digits(_, _, _)
\* f"{n:x}" (radix 16) and str(n) (radix 10) for n >= 0
Digits(n, radix, chars) ==
  IF n < radix THEN <<chars[n + 1]>>
  ELSE Digits(n \div radix, radix, chars) \o <<chars[(n % radix) + 1]>>

RECURSIVE ZeroPad(_, _)
\* the 0w part of f"{n:0wx}": pad on the left up to a minimum width
ZeroPad(s, width) == IF Len(s) >= width THEN s ELSE ZeroPad(<<"0">> \o s, width)

FormatHex(n, width) == ZeroPad(Digits(n, 16, HexChars), width)

str(n) == Digits(n, 10, DecChars)

IsNumeral(s, chars) ==
  /\ Len(s) > 0
  /\ \A i \in 1..Len(s) : \E d \in 1..Len(chars) : chars[d] = s[i]

CharValue(c, chars) == (CHOOSE d \in 1..Len(chars) : chars[d] = c) - 1

RECURSIVE ParseNumeral(_, _, _)
\* int(s, radix) for a string that IsNumeral
ParseNumeral(s, radix, chars) ==
  IF Len(s) = 0 THEN 0
  ELSE ParseNumeral(SubSeq(s, 1, Len(s) - 1), radix, chars) * radix
       + CharValue(s[Len(s)], chars)

RECURSIVE Join(_, _)
\* sep.join(parts)
Join(parts, sep) ==
  IF Len(parts) = 0 THEN <<>>
  ELSE IF Len(parts) = 1 THEN parts[1]
  ELSE parts[1] \o <<sep>> \o Join(Tail(parts), sep)

RECURSIVE Split(_, _)
\* s.split(sep): always at least one (possibly empty) part
Split(s, sep) ==
  IF \A i \in 1..Len(s) : s[i] # sep THEN <<s>>
  ELSE LET k == CHOOSE i \in 1..Len(s) :
                   s[i] = sep /\ \A j \in 1..(i - 1) : s[j] # sep
       IN <<SubSeq(s, 1, k - 1)>> \o Split(SubSeq(s, k + 1, Len(s)), sep)

format_device_id_hex(dev_id) ==
  Join([i \in 1..Len(dev_id) |-> FormatHex(dev_id[i], 2)], ":")

format_device_id_hex_underscore(dev_id) ==
  Join([i \in 1..Len(dev_id) |-> FormatHex(dev_id[i], 2)], "_")

(***************************************************************************)
(* Data domains                                                            *)
(***************************************************************************)
\* Device identifiers (packet.sender): 4-byte lists
Controller == <<4, 32, 88, 165>>
Sensor == <<1, 2, 3, 4>>
Senders == {Controller, Sensor}

\* 32-bit ids reported in IDAPP: 0x042074C9 and 0x01020304 (the latter
\* splits into the bytes of the device Sensor)
SubSensorA == ((4 * 256 + 32) * 256 + 116) * 256 + 201
SubSensorB == ((1 * 256 + 2) * 256 + 3) * 256 + 4
SubSensorIds == {SubSensorA, SubSensorB}

\* communicator.base_id once fetched; <<>> is None (not retrieved)
DongleBaseId == <<255, 156, 128, 128>>
DongleChipId == <<1, 148, 224, 10>>

BroadcastId == <<255, 255, 255, 255>>
OtherGatewayId == <<255, 128, 0, 1>>
OtherDeviceId == <<4, 32, 116, 201>>

Triplet(r, f, t) == [rorg |-> r, func |-> f, type |-> t]
NoTriplet == Triplet(None, None, None)

\* One decoded field of packet.parsed, as parse_eep produces it
Field(name, value, raw, oor, bad) ==
  [name |-> name, value |-> value, raw_value |-> raw,
   out_of_range |-> oor, invalid_enum |-> bad]

\* dict.get(name, default) on packet.parsed (a set of fields, names unique)
HasField(parsed, name) == \E f \in parsed : f.name = name
GetField(parsed, name) == CHOOSE f \in parsed : f.name = name

(***************************************************************************)
(* Loop work items: what call_soon_threadsafe was given                    *)
(***************************************************************************)
NoEep == [rorg |-> None, rorg_func |-> None, rorg_type |-> None,
          manufacturer |-> None]
\* src names the place that built the event; parsed is the packet's field map
Item(kind, src, dev, eep, arg, parsed) ==
  [kind |-> kind, src |-> src, device_id |-> dev, eep |-> eep, arg |-> arg,
   parsed |-> parsed]
DiscoveryInfo(dev, r, f, t, m, src) ==
  Item("discover", src, dev,
       [rorg |-> r, rorg_func |-> f, rorg_type |-> t, manufacturer |-> m],
       None, {})
RssiItem(dev, dbm) == Item("rssi", "callback", dev, NoEep, dbm, {})
ReceiveItem(dev, rorg, parsed) == Item("receive", "callback", dev, NoEep, rorg, parsed)
SaveItem == Item("save", "register", <<>>, NoEep, None, {})
SendItem(cmd) == Item("send", "reset", <<>>, NoEep, cmd, {})

(***************************************************************************)
(* State                                                                   *)
(***************************************************************************)
VARIABLES
  teach_in,                      \* _communicator.teach_in
  automatic_answer,              \* _communicator.automatic_answer
  base_id,                       \* EnOceanDongle.base_id
  _device_profiles,              \* device key -> {rorg, func, type}
  _devices_with_entities,        \* set of device keys
  _discovered_sensors,           \* set of <<parent key, sensor id>>
  _device_invalid_packet_count,  \* device id string -> count
  _device_warnings,              \* device id string -> warning flags
  _learning_task,                \* handle of the learning timer task, 0 = None
  timers,                        \* timer tasks still sleeping
  stored,                        \* config_entry.data[CONF_DEVICE_PROFILES]
  setupPc,                       \* position of async_setup_entry
  loopQueue,                     \* callables scheduled onto the loop, FIFO
  handlers,                      \* async_device_discovered tasks in flight
  received,                      \* number of telegrams handled so far
  persisted,                     \* history: the registry as last written to storage
  streak,                        \* history: the latest run of rejected telegrams
  ioThread,                      \* position of the I/O thread inside callback()
  learn_switch,                  \* <<_attr_is_on>> of the learn switch where observed
  notified,                      \* history: the latest learning-mode notification
  device_registry,               \* identifiers of the device registry entries
  diagnosed,                     \* history: <<device, flag>> logged in detail since the last reset
  last                           \* record of the most recent step's effect

vars == <<teach_in, automatic_answer, base_id, _device_profiles,
          _devices_with_entities, _discovered_sensors,
          _device_invalid_packet_count, _device_warnings, _learning_task,
          timers, stored, setupPc, loopQueue, handlers, received,
          persisted, streak, ioThread, learn_switch, notified,
          device_registry, diagnosed, last>>

dongleVars == <<teach_in, automatic_answer, base_id, _device_profiles,
                _devices_with_entities, _discovered_sensors,
                _device_invalid_packet_count, _device_warnings,
                _learning_task, timers>>

\* what Home Assistant keeps across restarts, and the history of the saves
storage == <<stored, persisted, device_registry>>

learnVars == <<ioThread, learn_switch, notified, diagnosed>>

\* dict[key] = value
Put(map, key, value) == (key :> value) @@ map
\* dict.get(key, default)
Get(map, key, default) == IF key \in DOMAIN map THEN map[key] ELSE default
EmptyMap == <<>>

(***************************************************************************)
(* Telegrams.  eep is what packet.parse_eep does when it is invoked with   *)
(* the sender's profile: it raises, or it fills packet.parsed.             *)
(***************************************************************************)
Telegram(rorg, sender, dest, dbm, eepRorg, manuf, func, type, cmd, raises, parsed) ==
  [rorg |-> rorg, sender |-> sender, destination |-> dest, dBm |-> dbm,
   rorg_of_eep |-> eepRorg, rorg_manufacturer |-> manuf,
   rorg_func |-> func, rorg_type |-> type, cmd |-> cmd,
   eep |-> [raises |-> raises, parsed |-> parsed]]

NoPacket == Telegram(None, <<>>, <<>>, None, None, None, None, None, None, FALSE, {})

(***************************************************************************)
(* EnOceanDongle.register_device_profile                                   *)
(***************************************************************************)
HasConfigEntry == TRUE

\* a registration that keeps an existing entry
register_keeps_first(profiles, device_id, rorg, func, type_) ==
  IF device_id \in DOMAIN profiles THEN profiles
  ELSE Put(profiles, device_id, Triplet(rorg, func, type_))

\* the registry after the registration
register_device_profile(profiles, device_id, rorg, func, type_) ==
  Put(profiles, device_id, Triplet(rorg, func, type_))

\* a registration that is not followed by a save
registration_unsaved == <<>>
\* what the registration schedules onto the loop
register_schedules == IF HasConfigEntry THEN <<SaveItem>> ELSE <<>>

(***************************************************************************)
(* EnOceanDongle._parse_packet_by_profile                                  *)
(***************************************************************************)
is_broadcast(dest) ==
  \/ \A i \in 1..Len(dest) : dest[i] = 255
  \/ (Len(dest) = 4 /\ dest[1] = 255)

\* the guard without the check for the dongle's own identifier
never_to_dongle(dest) == FALSE
is_to_dongle(dest) ==
  IF base_id # <<>> /\ Len(dest) = Len(base_id) THEN dest = base_id ELSE FALSE

is_from_controller(sender) ==
  /\ sender \in DOMAIN _device_profiles
  /\ _device_profiles[sender].rorg = ControllerRorg
  /\ _device_profiles[sender].func = ControllerFunc

\* the directed-telegram guard: TRUE when the method returns before parsing
skips_directed(pkt) ==
  /\ pkt.destination # <<>>
  /\ is_from_controller(pkt.sender)
  /\ ~is_broadcast(pkt.destination)
  /\ ~is_to_dongle(pkt.destination)

ParseResult(fault, invoked, raised, parsed, sched) ==
  [fault |-> fault, invoked |-> invoked, raised |-> raised,
   parsed |-> parsed, sched |-> sched]

\* the decoding with the has-entities test of the rediscovery left out
rediscovers_marked_devices(pkt) ==
  IF skips_directed(pkt)
  THEN ParseResult(base_id = <<>>, FALSE, FALSE, {}, <<>>)
  ELSE IF pkt.sender \notin DOMAIN _device_profiles
  THEN ParseResult(FALSE, FALSE, FALSE, {}, <<>>)
  ELSE IF pkt.eep.raises
  THEN ParseResult(FALSE, TRUE, TRUE, {}, <<>>)
  ELSE LET profile == _device_profiles[pkt.sender]
           parsed == pkt.eep.parsed
       IN ParseResult(FALSE, TRUE, FALSE, parsed,
            IF parsed # {}
            THEN <<DiscoveryInfo(pkt.sender, profile.rorg, profile.func,
                                 profile.type, None, "rediscover")>>
            ELSE <<>>)

_parse_packet_by_profile(pkt) ==
  IF skips_directed(pkt)
  THEN \* the debug log evaluates list(self.base_id): TypeError when None
       ParseResult(base_id = <<>>, FALSE, FALSE, {}, <<>>)
  ELSE IF pkt.sender \notin DOMAIN _device_profiles
  THEN ParseResult(FALSE, FALSE, FALSE, {}, <<>>)
  ELSE IF pkt.eep.raises
  THEN ParseResult(FALSE, TRUE, TRUE, {}, <<>>)
  ELSE LET profile == _device_profiles[pkt.sender]
           parsed == pkt.eep.parsed
       IN ParseResult(FALSE, TRUE, FALSE, parsed,
            IF parsed # {} /\ pkt.sender \notin _devices_with_entities
            THEN <<DiscoveryInfo(pkt.sender, profile.rorg, profile.func,
                                 profile.type, None, "rediscover")>>
            ELSE <<>>)

(***************************************************************************)
(* EnOceanDongle._validate_and_track_packet and _trigger_dongle_reset      *)
(***************************************************************************)
_has_out_of_range_fields(parsed) == \E f \in parsed : f.out_of_range
enum_check_skipped(parsed) == FALSE
_has_invalid_enum_fields(parsed) == \E f \in parsed : f.invalid_enum

NewWarnings == [out_of_range_logged |-> FALSE, invalid_enum_logged |-> FALSE]

\* flags that are handed out fresh for every telegram
warnings_forgotten(warnings, device_id) ==
  Put(warnings, format_device_id_hex(device_id), NewWarnings)

_get_device_warnings(warnings, device_id) ==
  IF format_device_id_hex(device_id) \in DOMAIN warnings
  THEN warnings
  ELSE Put(warnings, format_device_id_hex(device_id), NewWarnings)

ValidateResult(valid, counts, warnings, task, reset, logged, sched) ==
  [valid |-> valid, counts |-> counts, warnings |-> warnings, task |-> task,
   reset |-> reset, logged |-> logged, sched |-> sched]

\* a rejection whose reset leaves the counters and warnings in place
reject_without_clearing(device_id_str, warnings, flag) ==
  LET logged == ~warnings[device_id_str][flag]
      warned == [warnings EXCEPT ![device_id_str][flag] = TRUE]
      counts == Put(_device_invalid_packet_count, device_id_str,
                    Get(_device_invalid_packet_count, device_id_str, 0) + 1)
  IN IF counts[device_id_str] >= _dongle_reset_threshold
     THEN ValidateResult(FALSE, counts, warned, 0, TRUE, logged,
                         <<SendItem(CO_WR_RESET)>>)
     ELSE ValidateResult(FALSE, counts, warned, _learning_task, FALSE, logged,
                         <<>>)

\* a rejection of kind flag ("out_of_range_logged" or "invalid_enum_logged")
reject_and_count(device_id_str, warnings, flag) ==
  LET logged == ~warnings[device_id_str][flag]
      warned == [warnings EXCEPT ![device_id_str][flag] = TRUE]
      counts == Put(_device_invalid_packet_count, device_id_str,
                    Get(_device_invalid_packet_count, device_id_str, 0) + 1)
  IN IF counts[device_id_str] >= _dongle_reset_threshold
     THEN \* _trigger_dongle_reset: send CO_WR_RESET, clear all, drop the handle
          ValidateResult(FALSE, EmptyMap, EmptyMap, 0, TRUE, logged,
                         <<SendItem(CO_WR_RESET)>>)
     ELSE ValidateResult(FALSE, counts, warned, _learning_task, FALSE, logged,
                         <<>>)

\* the validation with the commented-out clearing of lines 410-413 in force
valid_clears_counter(pkt, parsed) ==
  LET device_id_str == format_device_id_hex(pkt.sender)
      warnings == _get_device_warnings(_device_warnings, pkt.sender)
  IN IF _has_out_of_range_fields(parsed)
     THEN reject_and_count(device_id_str, warnings, "out_of_range_logged")
     ELSE IF _has_invalid_enum_fields(parsed)
     THEN reject_and_count(device_id_str, warnings, "invalid_enum_logged")
     ELSE ValidateResult(TRUE,
            [k \in DOMAIN _device_invalid_packet_count \ {device_id_str}
               |-> _device_invalid_packet_count[k]],
            Put(warnings, device_id_str, NewWarnings),
            _learning_task, FALSE, FALSE, <<>>)

_validate_and_track_packet(pkt, parsed) ==
  LET device_id_str == format_device_id_hex(pkt.sender)
      warnings == _get_device_warnings(_device_warnings, pkt.sender)
  IN IF _has_out_of_range_fields(parsed)
     THEN reject_and_count(device_id_str, warnings, "out_of_range_logged")
     ELSE IF _has_invalid_enum_fields(parsed)
     THEN reject_and_count(device_id_str, warnings, "invalid_enum_logged")
     ELSE ValidateResult(TRUE, _device_invalid_packet_count, warnings,
                         _learning_task, FALSE, FALSE, <<>>)

(***************************************************************************)
(* EnOceanDongle._process_ventilairsec_sensors                             *)
(***************************************************************************)
\* prof_map: PROFAPP value -> device type string
prof_map ==
  [v \in 1..4 |->
     CASE v = 1 -> <<"d", "1", "0", "7", "9", "-", "0", "0", "-", "0", "0">>
       [] v = 2 -> <<"a", "5", "-", "0", "4", "-", "0", "1">>
       [] v = 3 -> <<"a", "5", "-", "0", "9", "-", "0", "4">>
       [] v = 4 -> <<"d", "2", "-", "0", "4", "-", "0", "8">>]

\* prof_map.get(prof_app_value, f"unknown-{prof_app_value}")
device_type_of(prof_app_value) ==
  IF prof_app_value \in DOMAIN prof_map
  THEN prof_map[prof_app_value]
  ELSE <<"u", "n", "k", "n", "o", "w", "n", "-">>
       \o (IF prof_app_value = None THEN <<"N", "o", "n", "e">>
           ELSE str(prof_app_value))

\* big-endian split of the 32-bit sensor id
sensor_id_bytes(sensor_id) ==
  <<(sensor_id \div 16777216) % 256, (sensor_id \div 65536) % 256,
    (sensor_id \div 256) % 256, sensor_id % 256>>

VentResult(profiles, discovered, registered, sched) ==
  [profiles |-> profiles, discovered |-> discovered,
   registered |-> registered, sched |-> sched]

\* one call of register_device_profile, as recorded in the history
Registration(device_id, rorg, func, type_) ==
  [device_id |-> device_id, profile |-> Triplet(rorg, func, type_)]

_process_ventilairsec_sensors(pkt, parsed) ==
  LET unchanged == VentResult(_device_profiles, _discovered_sensors, <<>>, <<>>)
  IN
  IF \/ pkt.rorg # RORG_MSC
     \/ pkt.rorg_manufacturer # VentilairsecManufacturer
     \/ pkt.cmd # SensorInventoryCmd
     \/ parsed = {}
  THEN unchanged
  ELSE IF ~HasField(parsed, "IDAPP")
  THEN unchanged
  ELSE LET sensor_id == GetField(parsed, "IDAPP").value
           prof_app_value == IF HasField(parsed, "PROFAPP")
                             THEN GetField(parsed, "PROFAPP").raw_value
                             ELSE None
           sensor_key == <<pkt.sender, sensor_id>>
           device_type == device_type_of(prof_app_value)
           eep_parts == Split(device_type, "-")
           eep_rorg_str == eep_parts[1]
           eep_func_str == IF Len(eep_parts) > 1 THEN eep_parts[2] ELSE <<"0", "0">>
           eep_type_str == IF Len(eep_parts) > 2 THEN eep_parts[3] ELSE <<"0", "0">>
       IN
       IF sensor_id = None
       THEN unchanged                               \* "Invalid sensor_id type"
       ELSE IF sensor_key \in _discovered_sensors
       THEN unchanged                               \* already discovered
       ELSE IF ~(/\ IsNumeral(eep_rorg_str, HexChars)
                 /\ IsNumeral(eep_func_str, HexChars)
                 /\ IsNumeral(eep_type_str, HexChars))
       THEN \* int(..., 16) raises ValueError after the key was marked
            VentResult(_device_profiles,
                       _discovered_sensors \cup {sensor_key}, <<>>, <<>>)
       ELSE LET rorg_int == ParseNumeral(eep_rorg_str, 16, HexChars)
                func_int == ParseNumeral(eep_func_str, 16, HexChars)
                type_int == ParseNumeral(eep_type_str, 16, HexChars)
                device == sensor_id_bytes(sensor_id)
            IN VentResult(
                 register_device_profile(_device_profiles, device,
                                         rorg_int, func_int, type_int),
                 _discovered_sensors \cup {sensor_key},
                 <<Registration(device, rorg_int, func_int, type_int)>>,
                 register_schedules
                   \o <<DiscoveryInfo(device, rorg_int, func_int, type_int,
                                      None, "inventory")>>)

(***************************************************************************)
(* EnOceanDongle.callback                                                  *)
(***************************************************************************)
\* the manufacturer formatted with two hex digits instead of three
rorg_value_two_digits(pkt) ==
  IF pkt.rorg_of_eep = RORG_MSC /\ pkt.rorg_manufacturer # None
  THEN ParseNumeral(FormatHex(pkt.rorg_of_eep, 2)
                      \o FormatHex(pkt.rorg_manufacturer, 2), 16, HexChars)
  ELSE IF pkt.rorg_of_eep # None THEN pkt.rorg_of_eep ELSE 0

\* the combined RORG registered for a teach-in telegram
teach_in_rorg_value(pkt) ==
  IF pkt.rorg_of_eep = RORG_MSC /\ pkt.rorg_manufacturer # None
  THEN ParseNumeral(FormatHex(pkt.rorg_of_eep, 2)
                      \o FormatHex(pkt.rorg_manufacturer, 3), 16, HexChars)
  ELSE IF pkt.rorg_of_eep # None THEN pkt.rorg_of_eep ELSE 0

\* x or 0 / x if x is not None else 0
OrZero(x) == IF x = None THEN 0 ELSE x

CallbackResult(outcome, parse, profiles, discovered, counts, warnings, task, reset, logged, registered, sched) ==
  [outcome |-> outcome, invoked |-> parse.invoked, raised |-> parse.raised,
   parsed |-> parse.parsed, profiles |-> profiles, discovered |-> discovered,
   counts |-> counts, warnings |-> warnings, task |-> task, reset |-> reset,
   logged |-> logged, registered |-> registered, sched |-> sched]

\* the sub-device discovery scheduled ahead of the telegram's own dispatches
discovery_scheduled_first(parse_sched, rssi, receive, vent_sched) ==
  parse_sched \o vent_sched \o rssi \o receive

\* the call_soon_threadsafe calls of a valid telegram, in program order: the
\* rediscovery inside _parse_packet_by_profile, the RSSI dispatch, the
\* general dispatch, and what _process_ventilairsec_sensors schedules
scheduled_in_order(parse_sched, rssi, receive, vent_sched) ==
  parse_sched \o rssi \o receive \o vent_sched

learning_ignores_nothing(pkt) == FALSE
\* line 511: in learning mode everything but a UTE telegram returns at once
ignored_while_learning(pkt) == pkt.rorg # RORG_UTE

NotParsed == ParseResult(FALSE, FALSE, FALSE, {}, <<>>)

\* the effect of one invocation of callback(packet) on a RadioPacket
callback(pkt) ==
  LET parse == IF pkt.rorg # RORG_UTE THEN _parse_packet_by_profile(pkt)
               ELSE NotParsed
      same(outcome, sched) ==
        CallbackResult(outcome, parse, _device_profiles, _discovered_sensors,
                       _device_invalid_packet_count, _device_warnings,
                       _learning_task, FALSE, FALSE, <<>>, sched)
  IN
  IF parse.fault
  THEN same("fault", <<>>)                \* the exception leaves callback()
  ELSE IF teach_in
  THEN IF ignored_while_learning(pkt)
       THEN same("ignored", parse.sched)
       ELSE LET rorg_value == teach_in_rorg_value(pkt)
            IN CallbackResult("teach_in", parse,
                 register_device_profile(_device_profiles, pkt.sender,
                    rorg_value, OrZero(pkt.rorg_func), OrZero(pkt.rorg_type)),
                 _discovered_sensors, _device_invalid_packet_count,
                 _device_warnings, _learning_task, FALSE, FALSE,
                 <<Registration(pkt.sender, rorg_value, OrZero(pkt.rorg_func),
                                OrZero(pkt.rorg_type))>>,
                 register_schedules
                   \o <<DiscoveryInfo(pkt.sender, rorg_value,
                                      OrZero(pkt.rorg_func),
                                      OrZero(pkt.rorg_type),
                                      pkt.rorg_manufacturer, "teach_in")>>)
  ELSE LET v == _validate_and_track_packet(pkt, parse.parsed)
       IN IF ~v.valid
          THEN CallbackResult("rejected", parse, _device_profiles,
                              _discovered_sensors, v.counts, v.warnings,
                              v.task, v.reset, v.logged, <<>>,
                              parse.sched \o v.sched)
          ELSE LET vent == _process_ventilairsec_sensors(pkt, parse.parsed)
               IN CallbackResult("dispatched", parse, vent.profiles,
                    vent.discovered, v.counts, v.warnings, v.task, FALSE,
                    FALSE, vent.registered,
                    scheduled_in_order(
                      parse.sched,
                      IF pkt.dBm # None
                      THEN <<RssiItem(pkt.sender, pkt.dBm)>> ELSE <<>>,
                      <<ReceiveItem(pkt.sender, pkt.rorg, parse.parsed)>>,
                      vent.sched))

(***************************************************************************)
(* Persistence: _async_save_device_profiles / async_load_device_profiles   *)
(***************************************************************************)
\* JSON values held in config-entry storage
JInt(n) == [t |-> "int", n |-> n, s |-> <<>>]
JStr(s) == [t |-> "str", n |-> 0, s |-> s]
JNull == [t |-> "null", n |-> 0, s |-> <<>>]
JMissing == [t |-> "missing", n |-> 0, s |-> <<>>]

\* a stored profile value: a mapping with the three fields, or another value
StoredProfile(rorg, func, type) ==
  [isdict |-> TRUE, rorg |-> rorg, func |-> func, type |-> type]
NotAMapping == [isdict |-> FALSE, rorg |-> JNull, func |-> JNull, type |-> JNull]

StoredEntry(key, value) == [key |-> key, value |-> value]

\* the key bytes written in hexadecimal
key_str_hex(device_key) ==
  Join([i \in 1..Len(device_key) |-> Digits(device_key[i], 16, HexChars)], ",")

\* ",".join(str(x) for x in device_key)
key_str(device_key) ==
  Join([i \in 1..Len(device_key) |-> str(device_key[i])], ",")

\* the map written by _async_save_device_profiles
profiles_to_save(profiles) ==
  {StoredEntry(key_str(k),
               StoredProfile(JInt(profiles[k].rorg), JInt(profiles[k].func),
                             JInt(profiles[k].type))) : k \in DOMAIN profiles}

\* int(profile.get(name, 0)) succeeds
IntOk(j) ==
  \/ j.t \in {"int", "missing"}
  \/ (j.t = "str" /\ IsNumeral(j.s, DecChars))
IntOf(j) ==
  IF j.t = "int" THEN j.n
  ELSE IF j.t = "str" THEN ParseNumeral(j.s, 10, DecChars)
  ELSE 0

\* tuple(int(x) for x in device_key_str.split(",")) succeeds
KeyOk(key) ==
  \A i \in 1..Len(Split(key, ",")) : IsNumeral(Split(key, ",")[i], DecChars)
KeyOf(key) ==
  [i \in 1..Len(Split(key, ",")) |-> ParseNumeral(Split(key, ",")[i], 10, DecChars)]

\* the entry raises one of the caught ValueError / KeyError / TypeError
EntrySkipped(e) ==
  \/ ~KeyOk(e.key)
  \/ /\ e.value.isdict
     /\ ~(IntOk(e.value.rorg) /\ IntOk(e.value.func) /\ IntOk(e.value.type))
\* profile.get on a value that is no mapping raises AttributeError,
\* which the handler does not catch (the key is parsed first)
EntryAborts(e) == KeyOk(e.key) /\ ~e.value.isdict
EntryLoads(e) == ~EntrySkipped(e) /\ ~EntryAborts(e)

LoadResult(profiles, events, aborted) ==
  [profiles |-> profiles, events |-> events, aborted |-> aborted]

RECURSIVE load_entries(_, _)
\* the for loop of async_load_device_profiles over the entries in order
load_entries(entries, acc) ==
  IF Len(entries) = 0 THEN acc
  ELSE LET e == Head(entries)
       IN IF EntryAborts(e)
          THEN [acc EXCEPT !.aborted = TRUE]
          ELSE IF ~EntryLoads(e)
          THEN load_entries(Tail(entries), acc)
          ELSE LET device_key == KeyOf(e.key)
                   rorg == IntOf(e.value.rorg)
                   func == IntOf(e.value.func)
                   type_ == IntOf(e.value.type)
               IN load_entries(Tail(entries),
                    LoadResult(Put(acc.profiles, device_key,
                                   Triplet(rorg, func, type_)),
                               Append(acc.events,
                                      DiscoveryInfo(device_key, rorg, func,
                                                    type_, None, "persisted")),
                               FALSE))

\* the orders in which a stored map can be iterated
Orderings(S) ==
  {q \in [1..Cardinality(S) -> S] : \A e \in S : \E i \in DOMAIN q : q[i] = e}

(***************************************************************************)
(* The record of the callback invocation that just returned (history, not  *)
(* program state); every other step clears it                              *)
(***************************************************************************)
NoLast ==
  [op |-> "none", pkt |-> NoPacket, outcome |-> "none", invoked |-> FALSE,
   raised |-> FALSE, parsed |-> {}, reset |-> FALSE, logged |-> FALSE,
   learning |-> FALSE, registered |-> <<>>, sched |-> <<>>,
   value_changed |-> FALSE, notified |-> <<>>, created |-> <<>>, removed |-> <<>>, handled |-> <<>>,
   direct |-> <<>>, duration |-> None,
   profile |-> <<>>, mapping |-> <<>>, fields |-> <<>>, entities |-> <<>>,
   calls |-> <<>>, entity |-> <<>>, telegram |-> <<>>, before |-> <<>>]


(***************************************************************************)
(* Initial state: EnOceanDongle.__init__ with the config entry's storage   *)
(***************************************************************************)
InitDongle ==
  /\ teach_in = FALSE
  /\ automatic_answer = FALSE
  /\ base_id = <<>>
  /\ _device_profiles = EmptyMap
  /\ _devices_with_entities = {}
  /\ _discovered_sensors = {}
  /\ _device_invalid_packet_count = EmptyMap
  /\ _device_warnings = EmptyMap
  /\ _learning_task = 0
  /\ timers = <<>>

InitWith(storedMaps) ==
  /\ InitDongle
  /\ stored \in storedMaps
  /\ setupPc = "constructed"
  /\ loopQueue = <<>>
  /\ handlers = <<>>
  /\ received = 0
  /\ persisted = [written |-> FALSE, profiles |-> EmptyMap]
  /\ device_registry = {}
  /\ streak = <<>>
  /\ ioThread = "idle"
  /\ learn_switch = <<>>                 \* the learn switch is not added yet
  /\ notified = <<>>
  /\ diagnosed = {}
  /\ last = NoLast

\* The integration at rest after async_setup_entry returned: the profiles
\* were loaded from storage, every discovery handler has finished and the
\* saves it scheduled have run (none on an installation without devices).
AtRest(profiles, withEntities, baseIds) ==
  /\ teach_in = FALSE
  /\ automatic_answer = FALSE
  /\ base_id \in baseIds
  /\ _device_profiles = profiles
  /\ _devices_with_entities = withEntities
  /\ _discovered_sensors = {}
  /\ _device_invalid_packet_count = EmptyMap
  /\ _device_warnings = EmptyMap
  /\ _learning_task = 0
  /\ timers = <<>>
  /\ stored = profiles_to_save(profiles)
  /\ setupPc = "loaded"
  /\ loopQueue = <<>>
  /\ handlers = <<>>
  /\ received = 0
  /\ persisted = [written |-> profiles # EmptyMap, profiles |-> profiles]
  /\ device_registry = {format_device_id_hex_underscore(d) : d \in withEntities}
  /\ streak = <<>>
  /\ ioThread = "idle"
  /\ notified = <<>>
  /\ diagnosed = {}
  /\ last = NoLast

\* ... the listener of the learn switch, whose calls touch no dongle state,
\* left out
Running(profiles, withEntities, baseIds) ==
  /\ AtRest(profiles, withEntities, baseIds)
  /\ learn_switch = <<>>

\* ... with the learn switch added: async_added_to_hass read learning_mode
RunningWithSwitch(profiles, withEntities, baseIds) ==
  /\ AtRest(profiles, withEntities, baseIds)
  /\ learn_switch = <<FALSE>>

(***************************************************************************)
(* I/O thread: one telegram handed to callback()                           *)
(***************************************************************************)
\* the flag kind _validate_and_track_packet rejects a decoded map for
rejected_flag(parsed) ==
  IF _has_out_of_range_fields(parsed) THEN "out_of_range_logged"
  ELSE "invalid_enum_logged"

\* history of the detailed diagnostics: emptied when the counters and
\* warnings are cleared, extended when _log_invalid_*_warning is called
diagnosed_after(pkt, r, cleared) ==
  IF cleared THEN {}
  ELSE IF r.logged THEN diagnosed \cup {<<pkt.sender, rejected_flag(r.parsed)>>}
  ELSE diagnosed

\* preempted: the thread is suspended inside _trigger_dongle_reset after
\* line 455, before the finally clause at line 472 has run
HandleTelegram(pkt, limit, preempted) ==
  LET r == callback(pkt)
  IN /\ setupPc # "constructed"           \* the communicator is started
     /\ ioThread = "idle"
     /\ preempted => r.reset
     /\ ioThread' = IF preempted THEN "finally" ELSE "idle"
     /\ received < limit
     /\ Len(loopQueue) + Len(r.sched) <= MaxQueue
     /\ received' = received + 1
     /\ _device_profiles' = r.profiles
     /\ _discovered_sensors' = r.discovered
     /\ _device_invalid_packet_count' = r.counts
     /\ _device_warnings' = r.warnings
     /\ _learning_task' = IF preempted THEN _learning_task ELSE r.task
     /\ loopQueue' = loopQueue \o r.sched
     /\ streak' = IF r.outcome # "rejected" THEN <<>>
                  ELSE LET e == [device |-> pkt.sender, reset |-> r.reset]
                           run == IF streak # <<>> /\ streak[1].device = pkt.sender
                                  THEN Append(streak, e) ELSE <<e>>
                       IN IF Len(run) > _dongle_reset_threshold
                          THEN Tail(run) ELSE run
     /\ diagnosed' = diagnosed_after(pkt, r, r.reset)
     /\ last' = [NoLast EXCEPT !.op = "callback", !.pkt = pkt,
                   !.outcome = r.outcome, !.invoked = r.invoked,
                   !.raised = r.raised, !.parsed = r.parsed,
                   !.reset = r.reset, !.logged = r.logged,
                   !.learning = teach_in, !.registered = r.registered,
                   !.sched = r.sched]
     /\ UNCHANGED <<teach_in, automatic_answer, base_id,
                    _devices_with_entities, timers, storage, setupPc, handlers,
                    learn_switch, notified>>

\* callback() runs to its end before the loop runs anything else
Receive(pkt, limit) == HandleTelegram(pkt, limit, FALSE)

\* the loop gets to run while the I/O thread is inside _trigger_dongle_reset
ReceivePreempted(pkt, limit) == HandleTelegram(pkt, limit, TRUE)

\* finally: self._learning_task = None (line 472), the I/O thread resumed
ResetFinally ==
  /\ ioThread = "finally"
  /\ ioThread' = "idle"
  /\ _learning_task' = 0
  /\ last' = NoLast
  /\ UNCHANGED <<teach_in, automatic_answer, base_id, _device_profiles,
                 _devices_with_entities, _discovered_sensors,
                 _device_invalid_packet_count, _device_warnings, timers,
                 storage, streak, setupPc, loopQueue, handlers, received,
                 learn_switch, notified, diagnosed>>

\* callback() for a telegram that triggers the reset while call_soon_threadsafe
\* raises in _trigger_dongle_reset (the loop is closed): the except branch at
\* lines 456-468 runs instead of the clearing of the counters.  The branch
\* calls dispatcher_send on the I/O thread; dispatch_raises: that call raises
\* in its turn and the exception leaves callback()
ReceiveSendFails(pkt, limit, dispatch_raises) ==
  LET r == callback(pkt)
      kept == reject_without_clearing(format_device_id_hex(pkt.sender),
                _get_device_warnings(_device_warnings, pkt.sender),
                rejected_flag(r.parsed))
      note == [enabled |-> FALSE, duration |-> None]
      direct == [kind |-> "learning", src |-> "disabled"]
      parse_sched == SubSeq(r.sched, 1, Len(r.sched) - 1)
  IN /\ setupPc # "constructed"
     /\ ioThread = "idle"
     /\ r.reset
     /\ received < limit
     /\ Len(loopQueue) + Len(parse_sched) <= MaxQueue
     /\ received' = received + 1
     /\ _device_invalid_packet_count' = kept.counts
     /\ _device_warnings' = kept.warnings
     /\ teach_in' = FALSE
     /\ _learning_task' = 0                  \* finally, line 472
     /\ ioThread' = "idle"
     /\ loopQueue' = loopQueue \o parse_sched
     /\ learn_switch' = IF dispatch_raises \/ learn_switch = <<>>
                        THEN learn_switch ELSE <<FALSE>>
     /\ notified' = IF dispatch_raises THEN notified ELSE <<note>>
     /\ diagnosed' = diagnosed_after(pkt, r, FALSE)
     /\ streak' = <<>>
     /\ last' = [NoLast EXCEPT !.op = "callback", !.pkt = pkt,
                   !.outcome = IF dispatch_raises THEN "fault" ELSE "rejected",
                   !.invoked = r.invoked, !.raised = r.raised,
                   !.parsed = r.parsed, !.logged = r.logged,
                   !.learning = teach_in, !.sched = parse_sched,
                   !.direct = <<direct>>]
     /\ UNCHANGED <<automatic_answer, base_id, _device_profiles,
                    _devices_with_entities, _discovered_sensors, timers,
                    storage, setupPc, handlers>>

(***************************************************************************)
(* Setup sequence: async_setup_entry                                       *)
(***************************************************************************)
\* EnOceanDongle.async_setup(load_profiles=False): start the communicator,
\* fetch the base id (which may fail) and connect the send listener
async_setup(baseIds) ==
  /\ setupPc = "constructed"
  /\ setupPc' = "started"
  /\ base_id' \in baseIds
  /\ last' = NoLast
  /\ UNCHANGED <<teach_in, automatic_answer, _device_profiles,
                 _devices_with_entities, _discovered_sensors,
                 _device_invalid_packet_count, _device_warnings,
                 _learning_task, timers, storage, streak, learnVars, loopQueue, handlers, received>>

\* inside async_forward_entry_setups: the switch platform has added the learn
\* switch (switch.py:36-40) while other platforms are still being set up
SwitchPlatformSetup ==
  /\ setupPc = "started"
  /\ setupPc' = "forwarding"
  /\ learn_switch' = <<teach_in>>        \* async_added_to_hass
  /\ last' = NoLast
  /\ UNCHANGED <<dongleVars, storage, streak, ioThread, diagnosed, notified, loopQueue,
                 handlers, received>>

\* hass.config_entries.async_forward_entry_setups: platform callbacks exist
ForwardEntrySetups ==
  /\ setupPc \in {"started", "forwarding"}
  /\ setupPc' = "platforms"
  /\ last' = NoLast
  /\ UNCHANGED <<dongleVars, storage, streak, learnVars, loopQueue, handlers, received>>

\* async_dispatcher_connect(hass, SIGNAL_DISCOVER_DEVICE, ...)
ConnectDiscovery ==
  /\ setupPc = "platforms"
  /\ setupPc' = "listening"
  /\ last' = NoLast
  /\ UNCHANGED <<dongleVars, storage, streak, learnVars, loopQueue, handlers, received>>

DiscoveryListening == setupPc \in {"listening", "loaded"}
\* the loop runs other work only while async_setup_entry is suspended
\* (awaiting the platform setups) or has returned
LoopFree == setupPc \in {"started", "forwarding", "loaded", "aborted", "unloaded"}
PlatformsReady == setupPc \in {"platforms", "listening", "loaded", "aborted"}
\* the learn switch can be operated
LearnSwitchAdded == setupPc = "forwarding" \/ PlatformsReady

NewHandler(item) == [device_id |-> item.device_id, eep |-> item.eep, pc |-> "start"]

\* async_load_device_profiles: the whole loop runs without suspending
async_load_device_profiles ==
  /\ setupPc = "listening"
  /\ \E order \in Orderings(stored) :
       LET r == load_entries(order, LoadResult(_device_profiles, <<>>, FALSE))
       IN /\ _device_profiles' = r.profiles
          /\ handlers' = handlers \o [i \in 1..Len(r.events) |-> NewHandler(r.events[i])]
          /\ setupPc' = IF r.aborted THEN "aborted" ELSE "loaded"
          /\ last' = [NoLast EXCEPT !.op = "load", !.sched = r.events]
  /\ UNCHANGED <<teach_in, automatic_answer, base_id, _devices_with_entities,
                 _discovered_sensors, _device_invalid_packet_count,
                 _device_warnings, _learning_task, timers, storage, streak, learnVars, loopQueue,
                 received>>

(***************************************************************************)
(* Event loop: run the next scheduled callable                             *)
(***************************************************************************)
\* EnOceanEntity._message_received_callback for the entities of device dev:
\* TRUE when value_changed is invoked
entity_accepts_teach_in(dev, rorg, sender) == sender = dev
_message_received_callback(dev, rorg, sender) ==
  IF rorg = RORG_UTE THEN FALSE ELSE sender = dev

\* _async_save_device_profiles
RunSave ==
  /\ Head(loopQueue).kind = "save"
  /\ stored' = IF HasConfigEntry THEN profiles_to_save(_device_profiles) ELSE stored
  /\ persisted' = IF HasConfigEntry
                  THEN [written |-> TRUE, profiles |-> _device_profiles]
                  ELSE persisted
  /\ last' = NoLast
  /\ UNCHANGED <<dongleVars, streak, learnVars, handlers, device_registry>>

\* dispatcher_send(SIGNAL_DISCOVER_DEVICE, discovery_info): the listener, when
\* connected, starts one async_device_discovered task
RunDiscoverWith(limit) ==
  /\ Head(loopQueue).kind = "discover"
  /\ Len(handlers) < limit
  /\ handlers' = IF DiscoveryListening
                 THEN Append(handlers, NewHandler(Head(loopQueue)))
                 ELSE handlers
  /\ last' = NoLast
  /\ UNCHANGED <<dongleVars, storage, streak, learnVars>>

\* dispatcher_send of the RSSI value, of the telegram, or of a command
RunDispatch ==
  /\ Head(loopQueue).kind \in {"rssi", "receive", "send"}
  /\ last' = IF Head(loopQueue).kind = "receive"
             THEN [NoLast EXCEPT
                     !.op = "deliver", !.sched = <<Head(loopQueue)>>,
                     !.value_changed =
                        \E dev \in _devices_with_entities :
                          _message_received_callback(dev, Head(loopQueue).arg,
                                                     Head(loopQueue).device_id)]
             ELSE NoLast
  /\ UNCHANGED <<dongleVars, storage, streak, learnVars, handlers>>

\* EnOceanLearnSwitch._learning_mode_changed_callback
RunLearningModeChanged ==
  /\ Head(loopQueue).kind = "learning"
  /\ learn_switch' = IF learn_switch = <<>> THEN <<>>
                     ELSE <<Head(loopQueue).src = "enabled">>
  /\ last' = [NoLast EXCEPT !.op = "notify", !.sched = <<Head(loopQueue)>>]
  /\ UNCHANGED <<dongleVars, storage, streak, ioThread, diagnosed, notified, handlers>>

RunDiscover == RunDiscoverWith(MaxHandlers)

LoopRunWith(limit) ==
  /\ LoopFree
  /\ Len(loopQueue) > 0
  /\ loopQueue' = Tail(loopQueue)
  /\ (RunSave \/ RunDiscoverWith(limit) \/ RunDispatch \/ RunLearningModeChanged)
  /\ UNCHANGED <<setupPc, received>>

LoopRun == LoopRunWith(MaxHandlers)

(***************************************************************************)
(* Discovery handler: async_device_discovered, one task per event          *)
(***************************************************************************)
\* the triplets the EEP database resolves
KnownProfiles ==
  {Triplet(ControllerRorg, 1, 0), Triplet(ControllerRorg, 0, 0),
   Triplet(165, 4, 1), Triplet(165, 9, 4), Triplet(210, 4, 8)}

RemoveAt(q, i) == SubSeq(q, 1, i - 1) \o SubSeq(q, i + 1, Len(q))

never_has_entities(device_id) == FALSE
\* EnOceanDongle.has_device_entities, the wrapper of has_entity_for_device
has_device_entities(device_id) == device_id \in _devices_with_entities

\* the fields of the dataclass EEPEntityDef
EEPEntityDefFields ==
  {"description", "rorg", "rorg_func", "rorg_type", "data_field",
   "entity_type", "unit", "device_class", "min_value", "max_value",
   "enum_options", "offset", "icon", "state_class", "entity_category",
   "value_template", "command_template", "mode"}
\* the keywords _extract_eep_fields and _create_entity_from_mapping pass to
\* EEPEntityDef(...)
ExtractKeywords ==
  {"description", "rorg", "rorg_func", "rorg_type", "data_field", "unit",
   "device_class", "entity_type", "min_value", "max_value", "enum_options",
   "enum_items", "offset"}
MappingKeywords ==
  {"description", "rorg", "rorg_func", "rorg_type", "data_field", "entity_type"}
\* the generated __init__ raises TypeError for a keyword that is no field
init_raises(keywords) == ~(keywords \subseteq EEPEntityDefFields)

\* isinstance(x, int) for a field of the discovery info
is_int(x) == x # None
integer_fields(eep) ==
  is_int(eep.rorg) /\ is_int(eep.rorg_func) /\ is_int(eep.rorg_type)

\* up to the first await: the guard on integer fields, then the
\* has-entities gate
HandlerStart(i) ==
  /\ LoopFree
  /\ handlers[i].pc = "start"
  /\ IF ~integer_fields(handlers[i].eep)
     THEN /\ handlers' = RemoveAt(handlers, i)
          /\ last' = [NoLast EXCEPT !.op = "handler",
                        !.outcome = "invalid_profile",
                        !.handled = <<handlers[i]>>]
          /\ UNCHANGED <<_device_profiles, loopQueue>>
     ELSE IF has_device_entities(handlers[i].device_id)
     THEN /\ Len(loopQueue) + Len(register_schedules) <= MaxQueue
          /\ _device_profiles' =
               register_device_profile(_device_profiles, handlers[i].device_id,
                  handlers[i].eep.rorg, handlers[i].eep.rorg_func,
                  handlers[i].eep.rorg_type)
          /\ loopQueue' = loopQueue \o register_schedules
          /\ handlers' = RemoveAt(handlers, i)
          /\ last' = [NoLast EXCEPT !.op = "handler",
                        !.handled = <<handlers[i]>>,
                        !.registered = <<Registration(handlers[i].device_id,
                           handlers[i].eep.rorg, handlers[i].eep.rorg_func,
                           handlers[i].eep.rorg_type)>>]
     ELSE /\ handlers' = [handlers EXCEPT ![i].pc = "lookup"]
          /\ last' = [NoLast EXCEPT !.handled = <<handlers[i]>>]
          /\ UNCHANGED <<_device_profiles, loopQueue>>
  /\ UNCHANGED <<teach_in, automatic_answer, base_id, _devices_with_entities,
                 _discovered_sensors, _device_invalid_packet_count,
                 _device_warnings, _learning_task, timers, storage, streak, learnVars, setupPc,
                 received>>

\* a lookup that resolves every triplet
lookup_resolves_all(i, eep_available) ==
  /\ LoopFree
  /\ handlers[i].pc = "lookup"
  /\ handlers' = [handlers EXCEPT ![i].pc = "entities"]
  /\ last' = [NoLast EXCEPT !.handled = <<handlers[i]>>]
  /\ UNCHANGED <<dongleVars, storage, streak, learnVars, setupPc, loopQueue,
                 received>>

\* The EEP lookup in the executor returned.  The handler goes on with a
\* profile the parser resolved, and also when get_eep() returned no parser
\* (the error is logged without a return); it returns for a triplet the
\* parser does not know.
HandlerLookupWith(i, eep_available) ==
  LET known == Triplet(handlers[i].eep.rorg, handlers[i].eep.rorg_func,
                       handlers[i].eep.rorg_type) \in KnownProfiles
  IN /\ LoopFree
     /\ handlers[i].pc = "lookup"
     /\ handlers' =
          IF ~eep_available THEN [handlers EXCEPT ![i].pc = "unverified"]
          ELSE IF known THEN [handlers EXCEPT ![i].pc = "entities"]
          ELSE RemoveAt(handlers, i)
     /\ last' = IF eep_available /\ ~known
                THEN [NoLast EXCEPT !.op = "handler",
                                    !.outcome = "unknown_profile",
                                    !.handled = <<handlers[i]>>]
                ELSE [NoLast EXCEPT !.handled = <<handlers[i]>>]
     /\ UNCHANGED <<dongleVars, storage, streak, learnVars, setupPc, loopQueue,
                    received>>
HandlerLookup(i) == \E eep_available \in BOOLEAN : HandlerLookupWith(i, eep_available)

\* get_entities_for_device raised the TypeError of the EEPEntityDef call
\* for a profile that declares a field: the handler ends with the exception
HandlerRaises(i) ==
  /\ LoopFree
  /\ handlers[i].pc = "entities"
  /\ init_raises(ExtractKeywords)
  /\ handlers' = RemoveAt(handlers, i)
  /\ last' = [NoLast EXCEPT !.op = "handler", !.outcome = "fault",
                            !.raised = TRUE, !.handled = <<handlers[i]>>]
  /\ UNCHANGED <<dongleVars, storage, streak, learnVars, setupPc, loopQueue,
                 received>>

\* get_entities_for_device returned an empty list (no parser, no profile
\* found by _load_eep_profile, or no field in it): the signal-strength
\* descriptor is appended, the profile registered, the platform callbacks
\* called and the device marked
HandlerCreate(i) ==
  /\ LoopFree
  /\ handlers[i].pc \in {"entities", "unverified"}
  /\ Len(loopQueue) + Len(register_schedules) <= MaxQueue
  /\ _device_profiles' =
       register_device_profile(_device_profiles, handlers[i].device_id,
          handlers[i].eep.rorg, handlers[i].eep.rorg_func,
          handlers[i].eep.rorg_type)
  /\ loopQueue' = loopQueue \o register_schedules
  /\ _devices_with_entities' = _devices_with_entities \cup {handlers[i].device_id}
  /\ handlers' = RemoveAt(handlers, i)
  /\ last' = [NoLast EXCEPT !.op = "handler",
                !.created = <<handlers[i].device_id>>,
                !.handled = <<handlers[i]>>,
                !.registered = <<Registration(handlers[i].device_id,
                   handlers[i].eep.rorg, handlers[i].eep.rorg_func,
                   handlers[i].eep.rorg_type)>>]
  /\ device_registry' =
       device_registry \cup {format_device_id_hex_underscore(handlers[i].device_id)}
  /\ UNCHANGED <<teach_in, automatic_answer, base_id, _discovered_sensors,
                 _device_invalid_packet_count, _device_warnings,
                 _learning_task, timers, stored, persisted, streak, learnVars,
                 setupPc, received>>

(***************************************************************************)
(* Removal of a device: async_remove_config_entry_device                   *)
(***************************************************************************)
\* tuple(device_id) if isinstance(device_id, list) else (device_id,)
device_key(device_id, is_list) == IF is_list THEN device_id ELSE <<device_id>>

\* EnOceanDongle.remove_entity_for_device, handed identifier[1] of the device
\* registry entry, which is a string
remove_entity_for_device(marked, identifier) ==
  marked \ {device_key(identifier, FALSE)}

\* the removal of the device registry entry `identifier` is requested and
\* accepted; Home Assistant then deletes the entry
async_remove_config_entry_device(identifier) ==
  /\ setupPc \in {"loaded", "aborted"}
  /\ identifier \in device_registry
  /\ _devices_with_entities' =
       remove_entity_for_device(_devices_with_entities, identifier)
  /\ device_registry' = device_registry \ {identifier}
  /\ last' = [NoLast EXCEPT !.op = "remove", !.removed = <<identifier>>]
  /\ UNCHANGED <<teach_in, automatic_answer, base_id, _device_profiles,
                 _discovered_sensors, _device_invalid_packet_count,
                 _device_warnings, _learning_task, timers, stored, persisted,
                 streak, learnVars, setupPc, loopQueue, handlers, received>>

(***************************************************************************)
(* Learning mode                                                           *)
(***************************************************************************)
\* the payload of SIGNAL_LEARNING_MODE_CHANGED; duration in seconds or None
LearningModeChanged(enabled, duration) ==
  [enabled |-> enabled, duration |-> duration]
LearningItem(note) ==
  Item("learning", IF note.enabled THEN "enabled" ELSE "disabled", <<>>, NoEep,
       note.duration, {})
learning_mode_change_unsent(note) == <<>>
\* dispatcher_send(hass, SIGNAL_LEARNING_MODE_CHANGED, note): one call of the
\* learn switch's listener is scheduled when the switch is connected
send_learning_mode_changed(note) ==
  IF learn_switch = <<>> THEN <<>> ELSE <<LearningItem(note)>>

no_task_sleeping == {}
\* the timer tasks in timers, as a set
Pending == {timers[i] : i \in 1..Len(timers)}

\* task.cancel() on the stored handle
Cancelled ==
  LET others(t) == t # _learning_task IN SelectSeq(timers, others)

start_learning(duration) ==
  LET minutes == IF duration = None THEN _learning_duration ELSE duration
      note == LearningModeChanged(TRUE, minutes * 60)
      left == {Cancelled[i] : i \in 1..Len(Cancelled)}
  IN /\ LoopFree /\ LearnSwitchAdded
     /\ Len(loopQueue) + Len(send_learning_mode_changed(note)) <= MaxQueue
     /\ \E t \in 1..MaxTasks :
          /\ t \notin left
          /\ \A u \in 1..(t - 1) : u \in left
          /\ timers' = Append(Cancelled, t)
          /\ _learning_task' = t
     /\ teach_in' = TRUE
     /\ automatic_answer' = TRUE
     /\ loopQueue' = loopQueue \o send_learning_mode_changed(note)
     /\ notified' = <<note>>
     /\ last' = [NoLast EXCEPT !.op = "start_learning", !.notified = <<note>>,
                   !.duration = duration]
     /\ UNCHANGED <<base_id, _device_profiles, _devices_with_entities,
                    _discovered_sensors, _device_invalid_packet_count,
                    _device_warnings, storage, streak, ioThread, diagnosed, learn_switch,
                    setupPc, handlers, received>>

\* EnOceanLearnSwitch.async_turn_on: the configured duration is used
async_start_learning == start_learning(None)

async_stop_learning ==
  LET note == LearningModeChanged(FALSE, None)
  IN /\ LoopFree /\ LearnSwitchAdded
     /\ Len(loopQueue) + Len(send_learning_mode_changed(note)) <= MaxQueue
     /\ timers' = Cancelled
     /\ teach_in' = FALSE
     /\ loopQueue' = loopQueue \o send_learning_mode_changed(note)
     /\ notified' = <<note>>
     /\ last' = [NoLast EXCEPT !.op = "stop_learning", !.notified = <<note>>]
     /\ UNCHANGED <<automatic_answer, base_id, _device_profiles,
                    _devices_with_entities, _discovered_sensors,
                    _device_invalid_packet_count, _device_warnings,
                    _learning_task, storage, streak, ioThread, diagnosed, learn_switch,
                    setupPc, handlers, received>>

\* asyncio.sleep(duration) returned in _disable_learning_after_timeout
_disable_learning_after_timeout(t) ==
  LET note == LearningModeChanged(FALSE, None)
      others(u) == u # t
  IN /\ LoopFree
     /\ t \in Pending
     /\ Len(loopQueue) + Len(send_learning_mode_changed(note)) <= MaxQueue
     /\ timers' = SelectSeq(timers, others)
     /\ teach_in' = FALSE
     /\ loopQueue' = loopQueue \o send_learning_mode_changed(note)
     /\ notified' = <<note>>
     /\ last' = [NoLast EXCEPT !.op = "timeout", !.notified = <<note>>]
     /\ UNCHANGED <<automatic_answer, base_id, _device_profiles,
                    _devices_with_entities, _discovered_sensors,
                    _device_invalid_packet_count, _device_warnings,
                    _learning_task, storage, streak, ioThread, diagnosed, learn_switch,
                    setupPc, handlers, received>>

\* async_unload_entry: EnOceanDongle.unload() cancels the stored timer task;
\* the entry's listeners and entities are disconnected by Home Assistant
async_unload_entry ==
  /\ setupPc \in {"loaded", "aborted"}
  /\ setupPc' = "unloaded"
  /\ timers' = Cancelled
  /\ learn_switch' = <<>>
  /\ last' = [NoLast EXCEPT !.op = "unload"]
  /\ UNCHANGED <<teach_in, automatic_answer, base_id, _device_profiles,
                 _devices_with_entities, _discovered_sensors,
                 _device_invalid_packet_count, _device_warnings,
                 _learning_task, storage, streak, ioThread, diagnosed, notified,
                 loopQueue, handlers, received>>

\* Home Assistant restarts: a fresh dongle is constructed over the same storage
Restart ==
  /\ setupPc \in {"loaded", "aborted"}
  /\ teach_in' = FALSE
  /\ automatic_answer' = FALSE
  /\ base_id' = <<>>
  /\ _device_profiles' = EmptyMap
  /\ _devices_with_entities' = {}
  /\ _discovered_sensors' = {}
  /\ _device_invalid_packet_count' = EmptyMap
  /\ _device_warnings' = EmptyMap
  /\ _learning_task' = 0
  /\ timers' = <<>>
  /\ setupPc' = "constructed"
  /\ loopQueue' = <<>>
  /\ handlers' = <<>>
  /\ last' = NoLast
  /\ streak' = <<>>
  /\ ioThread' = "idle"
  /\ learn_switch' = IF learn_switch = <<>> THEN <<>> ELSE <<FALSE>>
  /\ notified' = <<>>
  /\ diagnosed' = {}
  /\ UNCHANGED <<storage, received>>

(***************************************************************************)
(* Environments: the telegrams the transport delivers                      *)
(***************************************************************************)
ParsedOk == {Field("TMP", 21, 84, FALSE, FALSE)}
ParsedOutOfRange == {Field("TMP", 200, 255, TRUE, FALSE)}
ParsedInvalidEnum == {Field("MODE", None, 9, FALSE, TRUE)}
ParsedBoth == {Field("TMP", 200, 255, TRUE, FALSE),
               Field("MODE", None, 9, FALSE, TRUE)}
\* sensor-inventory report (CMD 8) of the Ventilairsec controller
ParsedInventory(sensor_id, prof) ==
  {Field("IDAPP", sensor_id, sensor_id, FALSE, FALSE),
   Field("PROFAPP", prof, prof, FALSE, FALSE),
   Field("CAPTINDEX", 0, 0, FALSE, FALSE)}

UteTelegram(sender, eepRorg, manuf, func, type) ==
  Telegram(RORG_UTE, sender, <<>>, 0 - 70, eepRorg, manuf, func, type, None,
           FALSE, {})
DataTelegram(rorg, sender, dest, dbm, raises, parsed) ==
  Telegram(rorg, sender, dest, dbm, None,
           IF rorg = RORG_MSC THEN VentilairsecManufacturer ELSE None,
           None, None, IF rorg = RORG_MSC THEN 1 ELSE None, raises, parsed)
InventoryTelegram(sender, sensor_id, prof) ==
  Telegram(RORG_MSC, sender, BroadcastId, 0 - 70, None,
           VentilairsecManufacturer, None, None, SensorInventoryCmd, FALSE,
           ParsedInventory(sensor_id, prof))

\* what config-entry storage holds when the dongle is constructed
Saved(device, rorg, func, type) ==
  StoredEntry(key_str(device), StoredProfile(JInt(rorg), JInt(func), JInt(type)))
SavedController == Saved(Controller, ControllerRorg, 1, 0)
SavedSensor == Saved(Sensor, RORG_BS4, 4, 1)

(***************************************************************************)
(* Specification: setup, learning mode, telegrams of every kind            *)
(***************************************************************************)
Telegrams ==
  {UteTelegram(Controller, RORG_MSC, VentilairsecManufacturer, 1, 0),
   UteTelegram(Sensor, RORG_BS4, 11, 4, None),
   UteTelegram(Sensor, RORG_MSC, 5, 0, 0),
   DataTelegram(RORG_BS4, Sensor, <<>>, 0 - 70, FALSE, ParsedOk),
   DataTelegram(RORG_BS4, Sensor, <<>>, 0 - 70, FALSE, ParsedOutOfRange),
   DataTelegram(RORG_BS4, Sensor, <<>>, None, FALSE, ParsedInvalidEnum),
   DataTelegram(RORG_MSC, Controller, <<>>, None, FALSE, ParsedOk),
   InventoryTelegram(Controller, SubSensorB, 2)}

InitialStorage == {{}, {SavedController, SavedSensor}}

Init == InitWith(InitialStorage)

AsyncSetup == async_setup({<<>>, DongleBaseId})
Receives == \E pkt \in Telegrams : Receive(pkt, MaxTelegrams)
Handler == \E i \in 1..Len(handlers) :
             \/ HandlerStart(i)
             \/ HandlerLookup(i)
             \/ HandlerRaises(i)
             \/ HandlerCreate(i)
Timeout == \E t \in 1..MaxTasks : _disable_learning_after_timeout(t)

Next ==
  \/ AsyncSetup
  \/ ForwardEntrySetups
  \/ ConnectDiscovery
  \/ async_load_device_profiles
  \/ Receives
  \/ LoopRun
  \/ Handler
  \/ async_start_learning
  \/ async_stop_learning
  \/ Timeout

Spec == Init /\ [][Next]_vars

(***************************************************************************)
(* Specification: the running integration, from each of its rest states    *)
(***************************************************************************)
\* the registry of the integration once both stored devices were loaded
LoadedProfiles ==
  (Controller :> Triplet(ControllerRorg, 1, 0))
    @@ (Sensor :> Triplet(RORG_BS4, 4, 1))

\* the stored profile of Sensor is one the EEP database does not resolve, so
\* its discovery handler ended without creating entities
UnresolvedProfiles ==
  (Controller :> Triplet(ControllerRorg, 1, 0))
    @@ (Sensor :> Triplet(RORG_BS4, 4, 0))

InitRunning ==
  \/ Running(EmptyMap, {}, {<<>>, DongleBaseId})
  \/ Running(LoadedProfiles, {Controller, Sensor}, {DongleBaseId})
  \/ Running(UnresolvedProfiles, {Controller}, {DongleBaseId})

NextRunning ==
  \/ Receives
  \/ LoopRun
  \/ Handler
  \/ async_start_learning
  \/ async_stop_learning
  \/ Timeout

SpecRunning == InitRunning /\ [][NextRunning]_vars

(***************************************************************************)
(* Properties checked under SpecRunning                                    *)
(***************************************************************************)
ItemsOf(q, kinds) == {i \in 1..Len(q) : q[i].kind \in kinds}
IsCallback(l) == l.op = "callback"
Flagged(parsed) == \E f \in parsed : f.out_of_range \/ f.invalid_enum

\* the registry after the step is the registry before it with exactly the
\* entry of reg.device_id replaced by reg.profile
OnlyEntryWritten(reg) ==
  /\ DOMAIN _device_profiles' = DOMAIN _device_profiles \cup {reg.device_id}
  /\ _device_profiles'[reg.device_id] = reg.profile
  /\ \A d \in DOMAIN _device_profiles \ {reg.device_id} :
       _device_profiles'[d] = _device_profiles[d]

\* C1: a registration makes the lookup of its identifier return exactly the
\* registered triplet, whatever was registered there before, and leaves the
\* profile of every other identifier as it was; a step of the running
\* integration without a registration leaves every lookup as it was.
C1_LastWriteWins ==
  [][IF last'.registered # <<>>
     THEN OnlyEntryWritten(last'.registered[1])
     ELSE _device_profiles' = _device_profiles]_vars

\* a registration has just replaced a different triplet of the same identifier
C1_Witness ==
  /\ last.registered # <<>>
  /\ last.registered[1].device_id = Sensor
  /\ last.registered[1].profile = Triplet(856069, 0, 0)
  /\ Controller \in DOMAIN _device_profiles
  /\ \E i \in 1..Len(loopQueue) :
       /\ loopQueue[i].kind = "discover"
       /\ loopQueue[i].device_id = Sensor
       /\ loopQueue[i].eep.rorg = RORG_BS4

\* C5: a telegram with a decoded field flagged out of range or as an invalid
\* enumeration value schedules neither a general-telegram dispatch nor an RSSI
\* dispatch and performs no sub-device discovery, in learning mode or not; so
\* every telegram waiting for delivery to the entities has no flagged field.
C5_RejectedNeverDelivered ==
  /\ [][(IsCallback(last') /\ Flagged(last'.parsed))
        => /\ ItemsOf(last'.sched, {"receive", "rssi"}) = {}
           /\ \A i \in 1..Len(last'.sched) : last'.sched[i].src # "inventory"
           /\ last'.registered = <<>>
           /\ _discovered_sensors' = _discovered_sensors
           /\ _device_profiles' = _device_profiles]_vars
  /\ [](\A i \in ItemsOf(loopQueue, {"receive"}) : ~Flagged(loopQueue[i].parsed))

\* a flagged telegram carrying a signal strength was rejected outside learning
\* mode, and one with a flagged enumeration field too
C5_Witness ==
  /\ IsCallback(last)
  /\ last.outcome = "rejected"
  /\ ~last.learning
  /\ \E f \in last.parsed : f.invalid_enum
  /\ \E d \in DOMAIN _device_invalid_packet_count :
       _device_invalid_packet_count[d] = 2

\* the triplet a discovery event carries
TripletOf(item) == Triplet(item.eep.rorg, item.eep.rorg_func, item.eep.rorg_type)
Holds(profiles, item) ==
  item.device_id \in DOMAIN profiles /\ profiles[item.device_id] = TripletOf(item)
\* the triplet the claim expects for a teach-in telegram, by arithmetic
EffectiveTriplet(pkt) ==
  Triplet(IF pkt.rorg_of_eep = RORG_MSC /\ pkt.rorg_manufacturer # None
          THEN pkt.rorg_of_eep * 4096 + pkt.rorg_manufacturer
          ELSE IF pkt.rorg_of_eep = None THEN 0 ELSE pkt.rorg_of_eep,
          IF pkt.rorg_func = None THEN 0 ELSE pkt.rorg_func,
          IF pkt.rorg_type = None THEN 0 ELSE pkt.rorg_type)
IsTeachIn(l) == IsCallback(l) /\ l.learning /\ l.pkt.rorg = RORG_UTE
TeachInEvents(q) == {i \in ItemsOf(q, {"discover"}) : q[i].src = "teach_in"}
\* the step registers the sender with the effective triplet and schedules
\* exactly one discovery event, which carries that identifier and triplet
RegistersAndAnnounces ==
  LET pkt == last'.pkt
      events == ItemsOf(last'.sched, {"discover"})
  IN /\ pkt.sender \in DOMAIN _device_profiles'
     /\ _device_profiles'[pkt.sender] = EffectiveTriplet(pkt)
     /\ Cardinality(events) = 1
     /\ \A i \in events :
          /\ last'.sched[i].device_id = pkt.sender
          /\ TripletOf(last'.sched[i]) = EffectiveTriplet(pkt)
          /\ Holds(_device_profiles', last'.sched[i])
\* the loop delivers the discovery event of a teach-in
DeliversTeachInEvent ==
  /\ 1 \in TeachInEvents(loopQueue)
  /\ loopQueue' = Tail(loopQueue)

\* C8 as stated: in learning mode each teach-in telegram registers the sender
\* with the effective triplet and schedules exactly one discovery event
\* carrying identifier and triplet, and the registry holds that triplet when
\* the event is delivered on the loop.
C8_HoldsAtDelivery ==
  /\ [][IsTeachIn(last') => RegistersAndAnnounces]_vars
  /\ [][DeliversTeachInEvent => Holds(_device_profiles, loopQueue[1])]_vars

\* C8 amended: in learning mode each teach-in telegram registers the sender
\* with the effective triplet and schedules exactly one discovery event
\* carrying identifier and triplet; the registry holds that triplet when the
\* event is scheduled and keeps it until a later registration for the same
\* identifier replaces it, so at delivery the identifier is registered with
\* the triplet of its most recent registration.
C8_HoldsUntilReplaced ==
  /\ [][IsTeachIn(last') => RegistersAndAnnounces]_vars
  /\ [][\A i \in TeachInEvents(loopQueue) :
          Holds(_device_profiles, loopQueue[i])
            => \/ Holds(_device_profiles', loopQueue[i])
               \/ /\ last'.registered # <<>>
                  /\ last'.registered[1].device_id = loopQueue[i].device_id
                  /\ _device_profiles'[loopQueue[i].device_id]
                       = last'.registered[1].profile]_vars
  /\ [](\A i \in TeachInEvents(loopQueue) :
          loopQueue[i].device_id \in DOMAIN _device_profiles)

\* a teach-in telegram of a manufacturer-specific profile whose manufacturer
\* code needs zero padding was registered in learning mode
C8_Witness ==
  /\ IsTeachIn(last)
  /\ last.pkt.rorg_of_eep = RORG_MSC
  /\ last.pkt.rorg_manufacturer = 5
  /\ TeachInEvents(loopQueue) # {}

IsIgnored(l) == IsCallback(l) /\ l.learning /\ l.pkt.rorg # RORG_UTE
DongleStateKept ==
  /\ _device_profiles' = _device_profiles
  /\ _discovered_sensors' = _discovered_sensors
  /\ _device_invalid_packet_count' = _device_invalid_packet_count
  /\ _device_warnings' = _device_warnings

BadKeyEntry ==
  StoredEntry(<<"i", "n", "v", "a", "l", "i", "d", ",", "k", "e", "y">>,
              StoredProfile(JInt(209), JInt(7), JInt(144)))
BadFieldEntry ==
  StoredEntry(key_str(Controller),
              StoredProfile(JStr(<<"i", "n", "v", "a", "l", "i", "d">>),
                            JInt(7), JInt(144)))
NullEntry == StoredEntry(key_str(Controller), NotAMapping)
\* a well-formed entry with a numeric string and a missing field
LenientEntry ==
  StoredEntry(key_str(OtherDeviceId),
              StoredProfile(JStr(<<"1", "6", "5">>), JInt(4), JMissing))

PersistStorage ==
  {{},
   {BadKeyEntry, BadFieldEntry, SavedSensor},
   {LenientEntry, BadKeyEntry},
   {NullEntry, SavedSensor}}

PersistTelegrams ==
  {UteTelegram(Controller, RORG_MSC, VentilairsecManufacturer, 1, 0),
   UteTelegram(Sensor, RORG_BS4, 11, 4, 1),
   UteTelegram(OtherDeviceId, 210, None, 4, 8)}

InitPersist == InitWith(PersistStorage)
PersistReceives == \E pkt \in PersistTelegrams : Receive(pkt, MaxTelegrams)

NextPersist ==
  \/ AsyncSetup
  \/ ForwardEntrySetups
  \/ ConnectDiscovery
  \/ async_load_device_profiles
  \/ PersistReceives
  \/ LoopRun
  \/ Handler
  \/ async_start_learning
  \/ Restart

SpecPersist == InitPersist /\ [][NextPersist]_vars

IsLoad(l) == l.op = "load"

\* C2: when storage was written by a save of the registry and is then loaded
\* into a fresh dongle, the load completes and the registry holds exactly the
\* identifiers that were saved, each with exactly the saved rorg, func and
\* type.
C2_RoundTrip ==
  [][(IsLoad(last') /\ persisted.written)
       => /\ setupPc' = "loaded"
          /\ _device_profiles' = persisted.profiles]_vars

\* a registry of two devices, one with a combined manufacturer-specific rorg,
\* was saved and has just been loaded into a fresh dongle
C2_Witness ==
  /\ IsLoad(last)
  /\ persisted.written
  /\ Cardinality(DOMAIN _device_profiles) = 2
  /\ Controller \in DOMAIN _device_profiles
  /\ _device_profiles[Controller] = Triplet(ControllerRorg, 1, 0)

\* what the claim calls a well-formed entry: an integer key and a mapping
\* whose fields convert to integers
WellFormed(e) ==
  /\ KeyOk(e.key)
  /\ e.value.isdict
  /\ IntOk(e.value.rorg) /\ IntOk(e.value.func) /\ IntOk(e.value.type)
TripletStored(e) ==
  Triplet(IntOf(e.value.rorg), IntOf(e.value.func), IntOf(e.value.type))

\* C3: loading never aborts on a malformed entry: for any stored map the load
\* completes, the registry afterwards holds exactly the well-formed entries,
\* and exactly one discovery event is emitted per loaded entry and none for a
\* malformed one.
C3_LoadNeverAborts ==
  [][IsLoad(last')
       => /\ setupPc' = "loaded"
          /\ DOMAIN _device_profiles'
               = {KeyOf(e.key) : e \in {x \in stored : WellFormed(x)}}
          /\ \A e \in {x \in stored : WellFormed(x)} :
               /\ _device_profiles'[KeyOf(e.key)] = TripletStored(e)
               /\ Cardinality({i \in 1..Len(last'.sched) :
                     /\ last'.sched[i].device_id = KeyOf(e.key)
                     /\ TripletOf(last'.sched[i]) = TripletStored(e)}) = 1
          /\ Len(last'.sched) = Cardinality({x \in stored : WellFormed(x)})]_vars

(***************************************************************************)
(* Specification: runs of rejected telegrams and the reset escalation      *)
(***************************************************************************)
MaxResetTelegrams == 7

ResetTelegrams ==
  {DataTelegram(RORG_BS4, Sensor, <<>>, 0 - 70, FALSE, ParsedOutOfRange),
   DataTelegram(RORG_BS4, Sensor, <<>>, None, FALSE, ParsedInvalidEnum),
   DataTelegram(RORG_MSC, Controller, <<>>, None, FALSE, ParsedOutOfRange),
   DataTelegram(RORG_BS4, Sensor, <<>>, None, FALSE, ParsedOk)}

InitReset == Running(LoadedProfiles, {Controller, Sensor}, {DongleBaseId})
ResetReceives == \E pkt \in ResetTelegrams : Receive(pkt, MaxResetTelegrams)

NextReset ==
  \/ ResetReceives
  \/ LoopRun
  \/ async_start_learning
  \/ async_stop_learning

SpecReset == InitReset /\ [][NextReset]_vars

IsRejected(l) == IsCallback(l) /\ l.outcome = "rejected"
ResetCommands(q) == {i \in ItemsOf(q, {"send"}) : q[i].arg = CO_WR_RESET}

DirectedProfiles ==
  {LoadedProfiles,
   (Controller :> Triplet(ControllerRorg, 0, 0)) @@ LoadedProfiles,
   (Controller :> Triplet(ControllerRorg, 1, 5)) @@ LoadedProfiles}

Destinations ==
  {<<>>, BroadcastId, <<255, 255>>, OtherGatewayId, OtherDeviceId, DongleChipId}

DirectedTelegrams ==
  {DataTelegram(RORG_MSC, Controller, dest, None, FALSE, ParsedOk) :
     dest \in Destinations}
  \cup {DataTelegram(RORG_BS4, Sensor, OtherDeviceId, None, FALSE, ParsedOk),
        DataTelegram(RORG_BS4, OtherDeviceId, OtherDeviceId, None, FALSE, ParsedOk)}

InitDirected ==
  \E profiles \in DirectedProfiles :
    Running(profiles, {Controller, Sensor}, {<<>>, DongleBaseId, DongleChipId})
DirectedReceives == \E pkt \in DirectedTelegrams : Receive(pkt, MaxTelegrams)

NextDirected ==
  \/ DirectedReceives
  \/ LoopRun

SpecDirected == InitDirected /\ [][NextDirected]_vars

FromRegistered(l) == IsCallback(l) /\ l.pkt.sender \in DOMAIN _device_profiles
AllFF(dest) == \A i \in 1..Len(dest) : dest[i] = 255

MaxReports == 3

\* PROFAPP 2 is mapped by prof_map, 5 is not
InventoryTelegrams ==
  {InventoryTelegram(Controller, sensor_id, prof) :
     sensor_id \in SubSensorIds, prof \in {2, 5}}

InitInventory == Running(LoadedProfiles, {Controller, Sensor}, {DongleBaseId})
InventoryReceives == \E pkt \in InventoryTelegrams : Receive(pkt, MaxReports)

NextInventory ==
  \/ InventoryReceives
  \/ LoopRun
  \/ Handler

SpecInventory == InitInventory /\ [][NextInventory]_vars

\* callback() handed a sensor-inventory report on to the sub-device discovery
IsReport(l) ==
  /\ IsCallback(l)
  /\ l.outcome = "dispatched"
  /\ l.pkt.rorg = RORG_MSC
  /\ l.pkt.rorg_manufacturer = VentilairsecManufacturer
  /\ l.pkt.cmd = SensorInventoryCmd
  /\ HasField(l.parsed, "IDAPP")
ReportedPair(l) == <<l.pkt.sender, GetField(l.parsed, "IDAPP").value>>
PseudoDevice(l) == sensor_id_bytes(GetField(l.parsed, "IDAPP").value)
Announcements(l) ==
  {i \in ItemsOf(l.sched, {"discover"}) : l.sched[i].src = "inventory"}

\* C7: for any sequence of sensor-inventory reports, the first report of a
\* (parent, sub-sensor id) pair registers the pseudo-device obtained from the
\* id by big-endian byte split and announces it by exactly one discovery
\* event, and every later report of the same pair changes neither the
\* registry nor the discovered-sensor set and announces nothing.
C7_DiscoveredOnce ==
  [][IsReport(last')
       => IF ReportedPair(last') \in _discovered_sensors
          THEN /\ _device_profiles' = _device_profiles
               /\ _discovered_sensors' = _discovered_sensors
               /\ Announcements(last') = {}
          ELSE /\ PseudoDevice(last') \in DOMAIN _device_profiles'
               /\ last'.registered # <<>>
               /\ last'.registered[1].device_id = PseudoDevice(last')
               /\ Cardinality(Announcements(last')) = 1
               /\ \A i \in Announcements(last') :
                    last'.sched[i].device_id = PseudoDevice(last')]_vars

(***************************************************************************)
(* Specification: learning mode, its timer and its notifications           *)
(***************************************************************************)
MaxLearningTelegrams == 5

\* the learning durations asked for, in minutes; None: the configured one
Durations == {None, 1}

OutOfRangeTelegram ==
  DataTelegram(RORG_BS4, Sensor, <<>>, None, FALSE, ParsedOutOfRange)
LearningTelegrams == {OutOfRangeTelegram}

RejectedSoFar == _dongle_reset_threshold - 1

\* The integration after setup and after the sensor sent one rejected
\* telegram less than the reset threshold
NearReset ==
  /\ teach_in = FALSE
  /\ automatic_answer = FALSE
  /\ base_id = DongleBaseId
  /\ _device_profiles = LoadedProfiles
  /\ _devices_with_entities = {Controller, Sensor}
  /\ _discovered_sensors = {}
  /\ _device_invalid_packet_count =
       (format_device_id_hex(Sensor) :> RejectedSoFar)
  /\ _device_warnings =
       (format_device_id_hex(Sensor) :>
          [out_of_range_logged |-> TRUE, invalid_enum_logged |-> FALSE])
  /\ _learning_task = 0
  /\ timers = <<>>
  /\ stored = profiles_to_save(LoadedProfiles)
  /\ setupPc = "loaded"
  /\ loopQueue = <<>>
  /\ handlers = <<>>
  /\ received = RejectedSoFar
  /\ persisted = [written |-> TRUE, profiles |-> LoadedProfiles]
  /\ device_registry = {format_device_id_hex_underscore(d) : d \in {Controller, Sensor}}
  /\ streak = [i \in 1..RejectedSoFar |-> [device |-> Sensor, reset |-> FALSE]]
  /\ ioThread = "idle"
  /\ notified = <<>>
  /\ diagnosed = {<<Sensor, "out_of_range_logged">>}
  /\ last = [NoLast EXCEPT !.op = "callback", !.pkt = OutOfRangeTelegram,
                !.outcome = "rejected", !.invoked = TRUE,
                !.parsed = ParsedOutOfRange]

\* ... with the learn switch added to Home Assistant
InitLearning == NearReset /\ learn_switch = <<FALSE>>

LearningReceives ==
  \E pkt \in LearningTelegrams :
    \/ Receive(pkt, MaxLearningTelegrams)
    \/ ReceivePreempted(pkt, MaxLearningTelegrams)
StartLearning == \E duration \in Durations : start_learning(duration)

NextLearning ==
  \/ LearningReceives
  \/ ResetFinally
  \/ LoopRun
  \/ StartLearning
  \/ async_stop_learning
  \/ Timeout
  \/ async_unload_entry

SpecLearning == InitLearning /\ [][NextLearning]_vars

(***************************************************************************)
(* Specification: learning mode when every sleeping timer task is resumed  *)
(***************************************************************************)
\* ... the listener of the learn switch left out
InitAutoStop == NearReset /\ learn_switch = <<>>

\* asyncio resumes a task whose sleep has ended
SpecAutoStop == InitAutoStop /\ [][NextLearning]_vars /\ WF_vars(Timeout)

(***************************************************************************)
(* Properties checked under SpecLearning and SpecAutoStop                  *)
(***************************************************************************)
\* the timer task whose sleep ended in this step
IsExpiry == last'.op = "timeout"

\* C11: at most one learning timer is pending at any time, and a timer that
\* expires while learning mode is on is the one started by the latest
\* startLearning (no timer of an earlier start disables a later session).
C11_SingleTimer ==
  /\ [](Len(timers) <= 1)
  /\ [][(IsExpiry /\ teach_in)
         => timers' = SubSeq(timers, 1, Len(timers) - 1)]_vars
\* C12: when stopLearning returns, teach-in acceptance is off, the automatic
\* teach-in response of the transport is off and no learning timer is pending.
C12_StopDisablesAll ==
  [][last'.op = "stop_learning"
     => /\ ~teach_in'
        /\ ~automatic_answer'
        /\ timers' = <<>>]_vars

LearningNotes(q) == ItemsOf(q, {"learning"})

\* learning mode is off and the latest notification said so
StoppedAndNotified ==
  /\ ~teach_in
  /\ notified = <<LearningModeChanged(FALSE, None)>>

\* C13: once learning mode is on, it is eventually off with a notification
\* enabled = false emitted (by the timer, unless a stop came first), or the
\* entry has been unloaded.
C13_AutomaticStop ==
  teach_in ~> (StoppedAndNotified \/ setupPc = "unloaded")

\* the timer of a learning session ended it: no stop cancelled the task
C13_Witness ==
  /\ last.op = "timeout"
  /\ StoppedAndNotified
  /\ _learning_task # 0
  /\ timers = <<>>

C15_NoExpiryAfterUnload ==
  /\ [](setupPc = "unloaded" => timers = <<>>)
  /\ [][setupPc = "unloaded"
         => /\ teach_in' = teach_in
            /\ last'.notified = <<>>]_vars
(***************************************************************************)
(* Specification: config-entry setup with telegrams arriving meanwhile     *)
(***************************************************************************)
SetupStorage == {{SavedController, SavedSensor}}

SetupTelegrams ==
  {UteTelegram(OtherDeviceId, 210, None, 4, 8),
   DataTelegram(RORG_BS4, Sensor, <<>>, 0 - 70, FALSE, ParsedOk),
   InventoryTelegram(Controller, SubSensorB, 2)}

InitSetup == InitWith(SetupStorage)
SetupReceives == \E pkt \in SetupTelegrams : Receive(pkt, MaxTelegrams)

NextSetup ==
  \/ AsyncSetup
  \/ SwitchPlatformSetup
  \/ ForwardEntrySetups
  \/ ConnectDiscovery
  \/ async_load_device_profiles
  \/ SetupReceives
  \/ LoopRun
  \/ Handler
  \/ async_start_learning

SpecSetup == InitSetup /\ [][NextSetup]_vars

(***************************************************************************)
(* Properties checked under SpecSetup                                      *)
(***************************************************************************)
\* async_setup_entry has not yet connected the discovery listener
BeforeListener == setupPc \in {"constructed", "started", "forwarding", "platforms"}

\* C16: no step taken before the platform callbacks and the discovery
\* listener are registered emits a discovery event of any origin, and the
\* persisted profiles are replayed by the load that follows the registration
\* of the listener.
C16_SetupOrdering ==
  [][ItemsOf(last'.sched, {"discover"}) # {}
     => /\ ~BeforeListener
        /\ IsLoad(last') => setupPc = "listening"]_vars

(***************************************************************************)
(* Post-decode rediscovery, checked under SpecRunning                      *)
(***************************************************************************)
Decoded(l) == l.invoked /\ ~l.raised /\ l.parsed # {}
Rediscoveries(q) == {i \in ItemsOf(q, {"discover"}) : q[i].src = "rediscover"}
EventsFor(q, dev) == {i \in ItemsOf(q, {"discover"}) : q[i].device_id = dev}

\* C17: a telegram of a registered device whose fields decode schedules a
\* discovery event for that device exactly when the device is not marked as
\* having entities, the event carries the triplet registered for the device,
\* and no telegram schedules a rediscovery of a marked device or of a device
\* other than its sender.
C17_RediscoveryIffUnmarked ==
  [][IsCallback(last')
     => LET dev == last'.pkt.sender
            own == EventsFor(last'.sched, dev)
        IN /\ Decoded(last')
              => IF dev \in _devices_with_entities
                 THEN own = {}
                 ELSE /\ Cardinality(own) = 1
                      /\ own = Rediscoveries(last'.sched)
                      /\ \A i \in own : Holds(_device_profiles, last'.sched[i])
           /\ \A i \in Rediscoveries(last'.sched) :
                /\ Decoded(last')
                /\ last'.sched[i].device_id = dev
                /\ dev \notin _devices_with_entities]_vars
\* a decoded telegram of a registered device without entities has scheduled
\* the rediscovery of that device
C17_Witness ==
  /\ IsCallback(last)
  /\ Decoded(last)
  /\ ~last.learning
  /\ last.pkt.sender \notin _devices_with_entities
  /\ Rediscoveries(last.sched) # {}
  /\ Rediscoveries(loopQueue) # {}
\* a decoded telegram of a marked device has scheduled nothing for it
C17_MarkedWitness ==
  /\ IsCallback(last)
  /\ Decoded(last)
  /\ last.pkt.sender \in _devices_with_entities
  /\ EventsFor(last.sched, last.pkt.sender) = {}

(***************************************************************************)
(* Specification: discovery handlers running concurrently.  The config     *)
(* entry is set up with a stored sensor; the sensor keeps sending while    *)
(* its discovery events are handled, and its device can be removed.        *)
(***************************************************************************)
DiscoveryStorage == {{SavedSensor}}

DiscoveryTelegrams ==
  {DataTelegram(RORG_BS4, Sensor, <<>>, 0 - 70, FALSE, ParsedOk)}

InitDiscovery == InitWith(DiscoveryStorage)
DiscoveryReceives == \E pkt \in DiscoveryTelegrams : Receive(pkt, MaxTelegrams)
DiscoveryLoopRun == LoopRunWith(MaxDiscoveryTasks)
RemoveDevice ==
  \E identifier \in device_registry : async_remove_config_entry_device(identifier)

NextDiscovery ==
  \/ AsyncSetup
  \/ ForwardEntrySetups
  \/ ConnectDiscovery
  \/ async_load_device_profiles
  \/ DiscoveryReceives
  \/ DiscoveryLoopRun
  \/ Handler
  \/ RemoveDevice

SpecDiscovery == InitDiscovery /\ [][NextDiscovery]_vars

(***************************************************************************)
(* Properties checked under SpecDiscovery                                  *)
(***************************************************************************)
\* C18: the platform callbacks are invoked for a device only when no entities
\* exist for it, that is when it has no device registry entry: never a second
\* time before the device is forgotten.
C18_EntitiesCreatedOnce ==
  [][last'.created # <<>>
     => format_device_id_hex_underscore(last'.created[1]) \notin device_registry]_vars

\* C20: the accepted removal of a device clears its has-entities mark, and a
\* decoded telegram from a registered device that has been removed schedules
\* a discovery event for it.
C20_RemovalReopensDiscovery ==
  /\ [][last'.op = "remove"
        => \A d \in _devices_with_entities' :
             format_device_id_hex_underscore(d) # last'.removed[1]]_vars
  /\ [][(/\ IsCallback(last')
         /\ Decoded(last')
         /\ format_device_id_hex_underscore(last'.pkt.sender) \notin device_registry)
        => EventsFor(last'.sched, last'.pkt.sender) # {}]_vars

(***************************************************************************)
(* Re-profiling, checked under SpecRunning                                 *)
(***************************************************************************)
\* the step starts the handling of a discovery event for a marked device
HandlesMarked(l) ==
  /\ l.handled # <<>>
  /\ l.handled[1].pc = "start"
  /\ l.handled[1].device_id \in _devices_with_entities

\* C19: the handling of a discovery event for a device marked as having
\* entities ends in the step that starts it; that step writes the event's
\* triplet to the device's registry entry and to no other, invokes no
\* platform callback and leaves the set of marked devices as it was.
C19_ReprofilingKeepsEntities ==
  [][HandlesMarked(last')
     => /\ Holds(_device_profiles', last'.handled[1])
        /\ OnlyEntryWritten(Registration(last'.handled[1].device_id,
              last'.handled[1].eep.rorg, last'.handled[1].eep.rorg_func,
              last'.handled[1].eep.rorg_type))
        /\ last'.created = <<>>
        /\ Len(handlers') = Len(handlers) - 1
        /\ _devices_with_entities' = _devices_with_entities]_vars
\* a marked device has been re-profiled by a discovery event, to a triplet
\* other than the one it was loaded with
C19_Witness ==
  /\ last.handled # <<>>
  /\ last.handled[1].pc = "start"
  /\ last.handled[1].device_id = Sensor
  /\ Sensor \in _devices_with_entities
  /\ last.created = <<>>
  /\ Holds(_device_profiles, last.handled[1])
  /\ _device_profiles[Sensor] # LoadedProfiles[Sensor]
  /\ format_device_id_hex_underscore(Sensor) \in device_registry

(***************************************************************************)
(* Invalid-packet counters and warn-once, checked under SpecReset          *)
(***************************************************************************)
CountOf(counts, device_id) == Get(counts, format_device_id_hex(device_id), 0)

\* C24: a telegram that validates leaves the invalid counter of its sender at
\* zero, and a telegram that triggers the reset leaves no counter at all.
C24_CounterResetOnValid ==
  /\ [][(IsCallback(last') /\ last'.outcome = "dispatched")
          => CountOf(_device_invalid_packet_count', last'.pkt.sender) = 0]_vars
  /\ [][(IsCallback(last') /\ last'.reset)
          => _device_invalid_packet_count' = EmptyMap]_vars

\* C25: the detailed diagnostic of a rejected telegram is logged only when
\* none was logged for the same device and flag kind since the last reset.
C25_WarnOnce ==
  [][(IsCallback(last') /\ last'.logged)
       => /\ IsRejected(last')
          /\ <<last'.pkt.sender, rejected_flag(last'.parsed)>> \notin diagnosed]_vars
\* after a reset and one logged diagnostic, the next rejected telegram of the
\* same device and kind is rejected without a diagnostic
C25_Witness ==
  /\ IsRejected(last)
  /\ ~last.logged
  /\ <<last.pkt.sender, rejected_flag(last.parsed)>> \in diagnosed
  /\ Len(streak) >= 3
  /\ streak[Len(streak) - 2].reset

(***************************************************************************)
(* Specification: the receive callback under failures.  The base id may    *)
(* not have been retrieved, the field parser may raise, and the loop may   *)
(* refuse the reset command.                                               *)
(***************************************************************************)
MaxFaultTelegrams == 6

RaisingTelegram == DataTelegram(RORG_BS4, Sensor, <<>>, 0 - 70, TRUE, {})

FaultTelegrams ==
  {OutOfRangeTelegram,
   RaisingTelegram,
   DataTelegram(RORG_BS4, Sensor, <<>>, 0 - 70, FALSE, ParsedOk),
   DataTelegram(RORG_MSC, Controller, OtherDeviceId, None, FALSE, ParsedOk)}

InitFaults ==
  \/ NearReset /\ learn_switch = <<FALSE>>
  \/ RunningWithSwitch(LoadedProfiles, {Controller, Sensor}, {<<>>, DongleBaseId})

FaultReceives == \E pkt \in FaultTelegrams : Receive(pkt, MaxFaultTelegrams)
SendFails ==
  \E pkt \in FaultTelegrams, dispatch_raises \in BOOLEAN :
    ReceiveSendFails(pkt, MaxFaultTelegrams, dispatch_raises)

NextFaults ==
  \/ FaultReceives
  \/ SendFails
  \/ LoopRun

SpecFaults == InitFaults /\ [][NextFaults]_vars

(***************************************************************************)
(* Properties checked under SpecFaults                                     *)
(***************************************************************************)
\* C21: no execution of callback() invokes a dispatch on the I/O thread;
\* whatever it emits is among the callables it scheduled onto the loop.
C21_NoDirectDispatch ==
  [][IsCallback(last') => last'.direct = <<>>]_vars

\* C27: a telegram on which the field parser raises schedules nothing onto
\* the loop and leaves the registry, the invalid counters, the warning flags
\* and the discovered-sensor set as they were.
C27_DecodeErrorDrops ==
  [][(IsCallback(last') /\ last'.raised)
       => /\ last'.sched = <<>>
          /\ loopQueue' = loopQueue
          /\ _device_profiles' = _device_profiles
          /\ _device_invalid_packet_count' = _device_invalid_packet_count
          /\ _device_warnings' = _device_warnings
          /\ _discovered_sensors' = _discovered_sensors]_vars

\* C28: no execution of callback() ends with an exception.
C28_CallbackNeverFaults ==
  [][IsCallback(last') => last'.outcome # "fault"]_vars

(***************************************************************************)
(* Threads and persistence, checked under SpecRunning                      *)
(***************************************************************************)
\* C22: a step of callback(), which runs on the I/O thread, changes neither
\* the profile registry nor the invalid counters, the warning flags or the
\* discovered-sensor set; they are written by steps of the loop only.
C22_LoopThreadMutation ==
  [][IsCallback(last')
       => /\ _device_profiles' = _device_profiles
          /\ _device_invalid_packet_count' = _device_invalid_packet_count
          /\ _device_warnings' = _device_warnings
          /\ _discovered_sensors' = _discovered_sensors]_vars

\* the entries of the stored map under the key of device k
StoredFor(k) == {e \in stored : e.key = key_str(k)}
SavesPending == ItemsOf(loopQueue, {"save"}) # {}

\* C23: with a config entry and no save left on the loop, the stored map has
\* exactly one entry for every identifier of the registry, under the
\* identifier's bytes in decimal joined by commas, holding the rorg, func and
\* type registered for it, and no entry for anything else.
C23_RegistrationsPersisted ==
  (HasConfigEntry /\ ~SavesPending)
    => /\ \A k \in DOMAIN _device_profiles :
            /\ Cardinality(StoredFor(k)) = 1
            /\ \A e \in StoredFor(k) :
                 /\ WellFormed(e)
                 /\ TripletStored(e) = _device_profiles[k]
       /\ \A e \in stored : \E k \in DOMAIN _device_profiles : e \in StoredFor(k)
\* the sensor was given another profile by a registration after the start,
\* and every save has run
C23_Witness ==
  /\ ~SavesPending
  /\ received > 0
  /\ persisted.written
  /\ persisted.profiles = _device_profiles
  /\ Sensor \in DOMAIN _device_profiles
  /\ _device_profiles[Sensor]
       \notin {LoadedProfiles[Sensor], UnresolvedProfiles[Sensor]}
  /\ Cardinality(StoredFor(Sensor)) = 1

(***************************************************************************)
(* Malformed inventory reports, checked under SpecInventory                *)
(***************************************************************************)
\* the report lacks a numeric sub-sensor id or a profile selector prof_map maps
Malformed(parsed) ==
  \/ ~HasField(parsed, "IDAPP")
  \/ GetField(parsed, "IDAPP").value = None
  \/ ~HasField(parsed, "PROFAPP")
  \/ GetField(parsed, "PROFAPP").raw_value \notin DOMAIN prof_map
IsInventory(l) ==
  /\ IsCallback(l)
  /\ l.outcome = "dispatched"
  /\ l.pkt.rorg = RORG_MSC
  /\ l.pkt.rorg_manufacturer = VentilairsecManufacturer
  /\ l.pkt.cmd = SensorInventoryCmd

\* C26: a malformed inventory report changes neither the registry nor the
\* discovered-sensor set and schedules no discovery event.
C26_MalformedReportDropped ==
  [][(IsInventory(last') /\ Malformed(last'.parsed))
       => /\ _device_profiles' = _device_profiles
          /\ _discovered_sensors' = _discovered_sensors
          /\ ItemsOf(last'.sched, {"discover"}) = {}]_vars

(***************************************************************************)
(* Field descriptors: eep_devices.get_entities_for_device and the entity   *)
(* creation of entity.async_create_entities_from_eep                       *)
(***************************************************************************)
MaxCommands == 2
MaxElements == 2

\* float(text.strip()) over the texts of the model: an unsigned decimal
\* numeral converts, any other text raises ValueError
float_raises(text) == ~IsNumeral(text, DecChars)
float(text) == ParseNumeral(text, 10, DecChars)

\* sub in s
Contains(s, sub) ==
  \E i \in 1..(Len(s) - Len(sub) + 1) : SubSeq(s, i, i + Len(sub) - 1) = sub

UpperChars == <<"A", "B", "C", "D", "E", "F", "G", "H", "I", "J", "K", "L", "M",
                "N", "O", "P", "Q", "R", "S", "T", "U", "V", "W", "X", "Y", "Z">>
LowerChars == <<"a", "b", "c", "d", "e", "f", "g", "h", "i", "j", "k", "l", "m",
                "n", "o", "p", "q", "r", "s", "t", "u", "v", "w", "x", "y", "z">>
\* str.lower()
lower(s) ==
  [i \in 1..Len(s) |->
     IF \E k \in 1..Len(UpperChars) : UpperChars[k] = s[i]
     THEN LowerChars[CHOOSE k \in 1..Len(UpperChars) : UpperChars[k] = s[i]]
     ELSE s[i]]
\* str.upper()
upper(s) ==
  [i \in 1..Len(s) |->
     IF \E k \in 1..Len(LowerChars) : LowerChars[k] = s[i]
     THEN UpperChars[CHOOSE k \in 1..Len(LowerChars) : LowerChars[k] = s[i]]
     ELSE s[i]]
\* str.replace(" ", "_")
replace_spaces(s) == [i \in 1..Len(s) |-> IF s[i] = " " THEN "_" ELSE s[i]]

\* A field element of EEP.xml: its tag (field_type), its shortcut attribute
\* (<<>> when missing), its <scale> and <range> children (<<>> when the
\* child is missing, else one record of the <min> and <max> texts, <<>> for
\* a missing bound) and the values of its <item> children.
Element(field_type, shortcut, scale, range, items) ==
  [field_type |-> field_type, shortcut |-> shortcut, scale |-> scale,
   range |-> range, items |-> items]
Bounds(min, max) == <<[min |-> min, max |-> max]>>

\* an EEPEntityDef, reduced to the attributes the claims read
EEPEntityDef(data_field, entity_type, min_value, max_value) ==
  [data_field |-> data_field, entity_type |-> entity_type,
   min_value |-> min_value, max_value |-> max_value, unit |-> <<>>]

\* the loop over the <scale> bounds: a bound that converts is stored with
\* locals()[val_var] = ...  Whether a write to the mapping locals() returns
\* reaches the local variable is left open by the language (writes_through);
\* the function frames of CPython never take it.
scale_bound(element, bound_type, writes_through) ==
  IF /\ element.scale # <<>>
     /\ element.scale[1][bound_type] # <<>>
     /\ ~float_raises(element.scale[1][bound_type])
     /\ writes_through
  THEN float(element.scale[1][bound_type])
  ELSE None

\* min_value / max_value after the <scale> and the <range> blocks: <range>
\* fills a bound that is still None
extract_bound(element, bound_type, writes_through) ==
  LET from_scale == scale_bound(element, bound_type, writes_through)
      text == IF element.range = <<>> THEN <<>>
              ELSE element.range[1][bound_type]
  IN IF from_scale # None \/ text = <<>> \/ float_raises(text)
     THEN from_scale
     ELSE float(text)

\* the classification by the kind of the field alone
classified_by_kind(shortcut, field_type, items, min_value, max_value) ==
  IF field_type = "boolean" THEN "binary_sensor"
  ELSE IF items # <<>> THEN "select"
  ELSE "sensor"

\* The description of an element of the model is its shortcut, at most three
\* characters, so none of the description keywords ("dimm", "brightness",
\* "command", the config_keywords) matches.
_classify_entity_type(shortcut, field_type, items, min_value, max_value) ==
  LET sc == upper(shortcut)
      vals == {items[i] : i \in 1..Len(items)}
  IN IF field_type = "boolean" THEN "binary_sensor"
     ELSE IF items # <<>>
       THEN IF vals = {0, 1} THEN "binary_sensor"
            ELSE IF sc[1] = "R" /\ Cardinality(vals) >= 3 THEN "button"
            ELSE IF Cardinality(vals) > 2 THEN "select"
            ELSE "sensor"
     ELSE IF sc \in {<<"W", "A", "S">>, <<"S", "M", "O">>, <<"C", "O">>}
       THEN "binary_sensor"
     ELSE IF sc = <<"W", "I", "N">> THEN "select"
     ELSE IF \E k \in {<<"E", "D", "I", "M">>, <<"D", "I", "M">>,
                       <<"B", "R", "I">>, <<"B", "R", "I", "G", "H", "T">>,
                       <<"D", "M", "D">>} : Contains(sc, k)
       THEN "light"
     ELSE IF sc = <<"C", "M", "D">> THEN "button"
     ELSE IF /\ field_type = "value"
             /\ min_value # None
             /\ max_value # None
             /\ 0 < max_value - min_value
             /\ max_value - min_value <= 10000
             /\ \E k \in {<<"V", "I", "T">>, <<"V", "O", "L">>,
                          <<"P", "O", "S">>, <<"B", "Y">>,
                          <<"V", "V", "E", "N", "T">>} : Contains(sc, k)
       THEN "number"
     ELSE "sensor"

\* the attributes computed for one element that has a usable shortcut, which
\* are then passed to EEPEntityDef(...)
field_of(element, writes_through) ==
  LET items == IF element.field_type = "enum" THEN element.items ELSE <<>>
      min_value == extract_bound(element, "min", writes_through)
      max_value == extract_bound(element, "max", writes_through)
  IN EEPEntityDef(element.shortcut,
                  _classify_entity_type(element.shortcut, element.field_type,
                                        items, min_value, max_value),
                  min_value, max_value)

\* container.find_all(field_type, recursive=False) without the elements the
\* loop skips: no shortcut, or the shortcut CMD
find_all(container, field_type) ==
  SelectSeq(container,
            LAMBDA e : /\ e.field_type = field_type
                       /\ e.shortcut # <<>>
                       /\ e.shortcut # <<"C", "M", "D">>)

container_fields(container, writes_through) ==
  LET of(field_type) ==
        LET found == find_all(container, field_type)
        IN [i \in 1..Len(found) |-> field_of(found[i], writes_through)]
  IN of("value") \o of("enum") \o of("boolean")

RECURSIVE fields_of_containers(_, _)
fields_of_containers(containers, writes_through) ==
  IF containers = <<>> THEN <<>>
  ELSE container_fields(Head(containers), writes_through)
       \o fields_of_containers(Tail(containers), writes_through)

\* A profile is its <data> elements (either branch of the test on
\* profile.name yields all of them) and, for a profile without <data>, the
\* field elements directly below it.
\* The result names the constructor calls made (calls) and, unless one of
\* them raised, the list returned (fields): the first call ends the loop
\* when the constructor raises.
_extract_eep_fields(profile, writes_through) ==
  LET containers == IF profile.data # <<>> THEN profile.data
                    ELSE <<profile.children>>
      computed == fields_of_containers(containers, writes_through)
  IN IF computed # <<>> /\ init_raises(ExtractKeywords)
     THEN [raised |-> TRUE, fields |-> <<>>, calls |-> <<computed[1]>>]
     ELSE [raised |-> FALSE, fields |-> computed, calls |-> computed]

\* the members of the enum EntityType
EntityTypes ==
  {"sensor", "binary_sensor", "select", "light", "button", "number", "switch"}

\* One entry of type_entry["entities"]: name, component (the empty string
\* when absent), and of its config section the unit (empty when absent) and
\* min (the text of the YAML value, empty when absent).
MappingDef(name, component, unit, min) ==
  [name |-> name, component |-> component, unit |-> unit, min |-> min]

\* if config.get("unit"): ...; if config.get("min") is not None: float(...)
\* with ValueError and TypeError suppressed
apply_config(mapping_def, entity) ==
  [entity EXCEPT
     !.unit = IF mapping_def.unit # <<>> THEN mapping_def.unit ELSE @,
     !.min_value = IF mapping_def.min # <<>> /\ ~float_raises(mapping_def.min)
                   THEN float(mapping_def.min) ELSE @]

_create_entity_from_mapping(mapping_def, name) ==
  LET component_str == IF mapping_def.component = "" THEN "sensor"
                       ELSE mapping_def.component
      entity_type == IF component_str \in EntityTypes THEN component_str
                     ELSE "sensor"
  IN apply_config(mapping_def, EEPEntityDef(name, entity_type, None, None))

_apply_mapping_to_entity(mapping_def, eep_entity) ==
  apply_config(mapping_def,
    [eep_entity EXCEPT
       !.entity_type = IF mapping_def.component \in EntityTypes
                       THEN mapping_def.component ELSE @])

\* an overlay that appends a descriptor for every mapping entry
overlay_appends_all(eep_entities, mapping) ==
  [i \in 1..Len(eep_entities) |->
     IF \E k \in 1..Len(mapping) : mapping[k].name = eep_entities[i].data_field
     THEN _apply_mapping_to_entity(
            mapping[CHOOSE k \in 1..Len(mapping) :
                      mapping[k].name = eep_entities[i].data_field],
            eep_entities[i])
     ELSE eep_entities[i]]
  \o [k \in 1..Len(mapping) |->
        _create_entity_from_mapping(mapping[k], mapping[k].name)]

\* mapping_lookup is a dict keyed by name: an entry without name is left
\* out, of two entries with one name the later one is kept, at the place of
\* the first.
_overlay_mapping_overrides(eep_entities, mapping) ==
  LET named == {k \in 1..Len(mapping) : mapping[k].name # <<>>}
      names == {mapping[k].name : k \in named}
      last_of(name) == CHOOSE k \in named :
                         /\ mapping[k].name = name
                         /\ \A j \in named : mapping[j].name = name => j <= k
      lookup(name) == mapping[last_of(name)]
      is_first(k) == k \in named
                       /\ \A j \in named : mapping[j].name = mapping[k].name => k <= j
      matched == {eep_entities[i].data_field : i \in 1..Len(eep_entities)}
                   \cap names
      firsts == SelectSeq([k \in 1..Len(mapping) |-> k],
                          LAMBDA k : is_first(k) /\ mapping[k].name \notin matched)
  IN [i \in 1..Len(eep_entities) |->
        IF eep_entities[i].data_field \in names
        THEN _apply_mapping_to_entity(lookup(eep_entities[i].data_field),
                                      eep_entities[i])
        ELSE eep_entities[i]]
     \o [i \in 1..Len(firsts) |->
           _create_entity_from_mapping(lookup(mapping[firsts[i]].name),
                                       mapping[firsts[i]].name)]

\* _load_eep_profile found no profile for the triplet
NoProfile == <<>>
\* _extract_eep_fields is called outside any try block
get_entities_for_device(profile, mapping, writes_through) ==
  LET extracted == IF profile = NoProfile
                   THEN [raised |-> FALSE, fields |-> <<>>, calls |-> <<>>]
                   ELSE _extract_eep_fields(profile, writes_through)
      eep_fields == extracted.fields
  IN IF extracted.raised \/ eep_fields = <<>> THEN extracted
     ELSE IF mapping # <<>>
       THEN [extracted EXCEPT
               !.fields = _overlay_mapping_overrides(eep_fields, mapping)]
     ELSE extracted

\* entity.py 494-513: the entities of one platform, one per unique id
RECURSIVE new_entities(_, _, _, _)
new_entities(entities_list, device_id, platform_type, seen_unique_ids) ==
  IF entities_list = <<>> THEN <<>>
  ELSE LET ent == Head(entities_list)
           unique_suffix == replace_spaces(lower(ent.data_field))
           unique_id == format_device_id_hex_underscore(device_id)
                          \o <<"-">> \o unique_suffix
       IN IF ent.entity_type # platform_type \/ unique_id \in seen_unique_ids
          THEN new_entities(Tail(entities_list), device_id, platform_type,
                            seen_unique_ids)
          ELSE <<[unique_id |-> unique_id, data_field |-> ent.data_field,
                  platform |-> platform_type]>>
               \o new_entities(Tail(entities_list), device_id, platform_type,
                               seen_unique_ids \cup {unique_id})

async_create_entities_from_eep(entities_list, device_id, platform_type) ==
  new_entities(entities_list, device_id, platform_type, {})

(***************************************************************************)
(* SpecFields: descriptors and entities built for one device               *)
(***************************************************************************)
TMP == <<"T", "M", "P">>
VOL == <<"V", "O", "L">>
Unparsable == <<"n", "/", "a">>

SeqsUpTo(S, n) == UNION {[1..k -> S] : k \in 1..n}

ScaleChoices ==
  {<<>>} \cup {Bounds(min, max) : min \in {<<>>, Unparsable, <<"1", "0">>},
                                  max \in {<<>>, Unparsable, <<"5", "0">>}}
RangeChoices ==
  {<<>>} \cup {Bounds(min, max) : min \in {<<>>, <<"0">>},
                                  max \in {<<>>, <<"2", "5", "5">>}}

\* value fields with every combination of declared bounds
BoundedElements ==
  {Element("value", sc, scale, range, <<>>) :
     sc \in {TMP, VOL}, scale \in ScaleChoices, range \in RangeChoices}

\* fields without bounds: a value, an enum of two or three items and a
\* boolean named TMP, a value named VOL, the command selector and an element
\* without shortcut
PlainElements ==
  {Element("value", TMP, <<>>, <<>>, <<>>),
   Element("value", VOL, <<>>, <<>>, <<>>),
   Element("value", <<>>, <<>>, <<>>, <<>>),
   Element("enum", <<"C", "M", "D">>, <<>>, <<>>, <<0, 1, 2>>),
   Element("enum", TMP, <<>>, <<>>, <<0, 1>>),
   Element("enum", TMP, <<>>, <<>>, <<0, 1, 2>>),
   Element("boolean", TMP, <<>>, <<>>, <<>>)}

\* fields of every kind, named TMP or R1, with no item or with items of
\* two, three and five values
R1 == <<"R", "1">>
ClassifiedElements ==
  {Element(field_type, sc, <<>>, <<>>, items) :
     field_type \in {"value", "enum", "boolean"}, sc \in {TMP, R1},
     items \in {<<>>, <<0, 1>>, <<1, 2>>, <<0, 1, 2>>, <<0, 1, 2, 3, 4>>}}

\* the fields of the commands of a profile with several <data> elements
CommandElements ==
  {e \in PlainElements :
     \/ e.shortcut = <<"C", "M", "D">>
     \/ e.shortcut = TMP /\ e.items \in {<<>>, <<0, 1, 2>>}
                        /\ e.field_type # "boolean"}

EepProfile(data, children) == [data |-> data, children |-> children]

\* the fields of one <data> element or of one profile without commands:
\* EEP.xml names each of them differently
Containers ==
  {c \in SeqsUpTo(PlainElements, MaxElements) :
     \A i, j \in 1..Len(c) : i # j => c[i].shortcut # c[j].shortcut}

CommandContainers ==
  {c \in Containers : \A i \in 1..Len(c) : c[i] \in CommandElements}

Profiles ==
  {EepProfile(<<<<e>>>>, <<>>) : e \in BoundedElements \cup ClassifiedElements}
    \cup {EepProfile(<<>>, c) : c \in Containers}
    \cup {EepProfile(<<c>>, <<>>) : c \in Containers}
    \cup {EepProfile(d, <<>>) : d \in SeqsUpTo(CommandContainers, MaxCommands)}
    \cup {NoProfile}

\* the mapping entries of the triplet: none, an override of TMP, an entity
\* the mapping alone defines
Mappings ==
  {<<>>,
   <<MappingDef(TMP, "sensor", <<>>, <<>>)>>,
   <<MappingDef(<<"D", "I", "A">>, "sensor", <<>>, <<>>)>>}

Platforms == {"sensor", "binary_sensor", "select", "number"}

InitFields ==
  /\ teach_in = FALSE
  /\ automatic_answer = FALSE
  /\ base_id = DongleBaseId
  /\ _device_profiles = LoadedProfiles
  /\ _devices_with_entities = {}
  /\ _discovered_sensors = {}
  /\ _device_invalid_packet_count = EmptyMap
  /\ _device_warnings = EmptyMap
  /\ _learning_task = 0
  /\ timers = <<>>
  /\ stored = profiles_to_save(LoadedProfiles)
  /\ setupPc = "loaded"
  /\ loopQueue = <<>>
  /\ handlers = <<>>
  /\ received = 0
  /\ persisted = [written |-> TRUE, profiles |-> LoadedProfiles]
  /\ device_registry = {format_device_id_hex_underscore(Sensor)}
  /\ streak = <<>>
  /\ ioThread = "idle"
  /\ learn_switch = <<>>
  /\ notified = <<>>
  /\ diagnosed = {}
  /\ last \in {[NoLast EXCEPT !.profile = p, !.mapping = m] :
                 p \in Profiles, m \in Mappings}

\* async_device_discovered builds the descriptors of the device in an
\* executor job
GetEntities ==
  \E writes_through \in BOOLEAN :
    /\ last.op = "none"
    /\ LET built == get_entities_for_device(last.profile, last.mapping,
                                            writes_through)
       IN last' = [last EXCEPT !.op = "get_entities_for_device",
                                !.raised = built.raised,
                                !.calls = built.calls,
                                !.fields = built.fields]
    /\ UNCHANGED <<dongleVars, storage, setupPc, loopQueue, handlers, received,
                   streak, learnVars>>

\* ... and hands them to a platform's callback, which creates its entities
CreateEntities ==
  \E platform_type \in Platforms :
    /\ last.op = "get_entities_for_device"
    /\ ~last.raised
    /\ format_device_id_hex_underscore(Sensor) \in device_registry
    /\ last' = [last EXCEPT
                  !.op = "async_create_entities_from_eep",
                  !.entities = async_create_entities_from_eep(last.fields, Sensor,
                                                              platform_type)]
    /\ UNCHANGED <<dongleVars, storage, setupPc, loopQueue, handlers, received,
                   streak, learnVars>>

NextFields ==
  \/ GetEntities
  \/ CreateEntities

SpecFields == InitFields /\ [][NextFields]_vars

\* C29: a list of descriptors is built for a triplet, and its descriptors
\* carry pairwise different data_field values, also for a profile of several
\* commands.
C29_UniqueDataField ==
  last.op = "get_entities_for_device"
    => /\ ~last.raised
       /\ \A i, j \in 1..Len(last.fields) :
            i # j => last.fields[i].data_field # last.fields[j].data_field

\* the bound a field declares: the <scale> text when it converts, else the
\* <range> text when it converts, else none
DeclaredBound(element, bound_type) ==
  LET declared(block) == /\ block # <<>>
                         /\ block[1][bound_type] # <<>>
                         /\ ~float_raises(block[1][bound_type])
  IN IF declared(element.scale) THEN float(element.scale[1][bound_type])
     ELSE IF declared(element.range) THEN float(element.range[1][bound_type])
     ELSE None
\* the profile's one field has a <scale> and a <range> child
ScaleAndRange(profile) ==
  /\ profile # NoProfile
  /\ Len(profile.data) = 1
  /\ Len(profile.data[1]) = 1
  /\ profile.data[1][1].scale # <<>>
  /\ profile.data[1][1].range # <<>>

\* C30: the min_value and max_value extracted for a field that declares a
\* <scale> and a <range> are its <scale> bounds; a <range> bound is used only
\* where <scale> provides none.
C30_ScaleBoundsPreferred ==
  (last.op = "get_entities_for_device" /\ ScaleAndRange(last.profile))
    => /\ last.calls[1].min_value = DeclaredBound(last.profile.data[1][1], "min")
       /\ last.calls[1].max_value = DeclaredBound(last.profile.data[1][1], "max")

(***************************************************************************)
(* Classification of a field, checked under SpecFields                     *)
(***************************************************************************)
\* the profile declares one field in one <data> element, and the triplet
\* has no mapping entry
OneFieldNoMapping(l) ==
  /\ l.op = "get_entities_for_device"
  /\ l.mapping = <<>>
  /\ l.profile # NoProfile
  /\ Len(l.profile.data) = 1
  /\ Len(l.profile.data[1]) = 1
  /\ l.profile.data[1][1].shortcut \notin {<<>>, <<"C", "M", "D">>}
TheField(l) == l.profile.data[1][1]
ItemValues(element) == {element.items[i] : i \in 1..Len(element.items)}

\* C31: a boolean field is a binary_sensor; an enum field with the values
\* {0, 1} is a binary_sensor, with three or more values and a shortcut that
\* starts with R a button, with more than two values otherwise a select, and
\* any other enum field with items a sensor.
C31_Classification ==
  (/\ OneFieldNoMapping(last)
   /\ \/ TheField(last).field_type = "boolean"
      \/ TheField(last).field_type = "enum" /\ TheField(last).items # <<>>)
    => /\ Len(last.calls) = 1
       /\ last.calls[1].entity_type =
            IF TheField(last).field_type = "boolean" THEN "binary_sensor"
            ELSE IF ItemValues(TheField(last)) = {0, 1} THEN "binary_sensor"
            ELSE IF /\ Cardinality(ItemValues(TheField(last))) >= 3
                    /\ TheField(last).shortcut[1] = "R" THEN "button"
            ELSE IF Cardinality(ItemValues(TheField(last))) > 2 THEN "select"
            ELSE "sensor"
C31_Witness ==
  /\ OneFieldNoMapping(last)
  /\ TheField(last).field_type = "enum"
  /\ TheField(last).shortcut = R1
  /\ Cardinality(ItemValues(TheField(last))) = 5
  /\ last.calls[1].entity_type = "button"

(***************************************************************************)
(* Failures of the descriptor builder, checked under SpecFields            *)
(***************************************************************************)
\* the value, enum and boolean elements the extraction does not skip
Declared(profile) ==
  IF profile = NoProfile THEN <<>>
  ELSE fields_of_containers(IF profile.data # <<>> THEN profile.data
                            ELSE <<profile.children>>, FALSE)

\* C32: get_entities_for_device returns a list and never raises; the list
\* is empty for a triplet without profile, and holds one descriptor per
\* declared field of a profile when the triplet has no mapping entry.
C32_LookupsSoftFail ==
  last.op = "get_entities_for_device"
    => /\ ~last.raised
       /\ last.profile = NoProfile => last.fields = <<>>
       /\ last.mapping = <<>> => Len(last.fields) = Len(Declared(last.profile))

(***************************************************************************)
(* SpecSignals: discovery signals with any payload reach the handler       *)
(***************************************************************************)
MaxSignals == 2

\* payloads of SIGNAL_DISCOVER_DEVICE: a triplet the EEP database resolves,
\* one it does not know, and one with a missing field
DiscoverySignals ==
  {DiscoveryInfo(dev, t.rorg, t.func, t.type, None, "signal") :
     dev \in {Controller, Sensor},
     t \in {Triplet(165, 4, 1), Triplet(165, 63, 63), Triplet(165, None, 1)}}

InitSignals == Running(LoadedProfiles, {Controller}, {DongleBaseId})

\* dispatcher_send(hass, SIGNAL_DISCOVER_DEVICE, discovery_info)
SignalDiscover ==
  \E info \in DiscoverySignals :
    /\ Len(loopQueue) < MaxSignals
    /\ loopQueue' = Append(loopQueue, info)
    /\ last' = NoLast
    /\ UNCHANGED <<dongleVars, storage, streak, learnVars, setupPc, handlers,
                   received>>

NextSignals ==
  \/ SignalDiscover
  \/ LoopRun
  \/ Handler

SpecSignals == InitSignals /\ [][NextSignals]_vars

\* the triplet has a field that is no integer, or the EEP database does not
\* know it
Unresolvable(eep) ==
  \/ ~integer_fields(eep)
  \/ Triplet(eep.rorg, eep.rorg_func, eep.rorg_type) \notin KnownProfiles

C36_InvalidWitness ==
  /\ last.op = "handler"
  /\ last.outcome = "invalid_profile"
  /\ last.handled[1].eep.rorg_func = None
  /\ Sensor \notin _devices_with_entities

(***************************************************************************)
(* SpecDelivery: what one valid telegram schedules, and in which order     *)
(***************************************************************************)
MaxDeliveries == 2

\* the controller is registered but has no entities yet, so a decoded
\* telegram of it is followed by a rediscovery
DeliveryTelegrams ==
  {InventoryTelegram(Controller, SubSensorB, 2),
   [InventoryTelegram(Controller, SubSensorA, 2) EXCEPT !.dBm = None],
   DataTelegram(RORG_MSC, Controller, <<>>, 0 - 60, FALSE, ParsedOk),
   DataTelegram(RORG_BS4, Sensor, <<>>, 0 - 70, FALSE, ParsedOk),
   DataTelegram(RORG_BS4, Sensor, <<>>, None, FALSE, ParsedOk),
   DataTelegram(RORG_BS4, Sensor, <<>>, 0 - 70, FALSE, ParsedOutOfRange)}

InitDelivery == Running(LoadedProfiles, {Sensor}, {DongleBaseId})
DeliveryReceives == \E pkt \in DeliveryTelegrams : Receive(pkt, MaxDeliveries)

NextDelivery ==
  \/ DeliveryReceives
  \/ LoopRun
  \/ Handler

SpecDelivery == InitDelivery /\ [][NextDelivery]_vars

\* the place of a scheduled callable in the order of the deliveries
DeliveryRank(item) ==
  CASE item.kind = "discover" /\ item.src = "rediscover" -> 1
    [] item.kind = "rssi" -> 2
    [] item.kind = "receive" -> 3
    [] item.kind = "discover" /\ item.src = "inventory" -> 4
    [] OTHER -> 0

IsDelivery(item) == DeliveryRank(item) > 0
Deliveries(sched) == SelectSeq(sched, IsDelivery)

\* C33: a validated telegram schedules onto the loop, in this order, the
\* rediscovery event (if any), the RSSI update (iff a signal strength is
\* present), the general telegram, and then the sub-device discovery event
\* (if any); they are appended behind what earlier telegrams scheduled, and
\* the loop only ever takes the callable at the head of its queue.
C33_DeliveryOrder ==
  [][/\ (last'.op = "callback" /\ last'.outcome = "dispatched")
          => LET d == Deliveries(last'.sched)
             IN /\ \A i, j \in 1..Len(d) :
                     i < j => DeliveryRank(d[i]) < DeliveryRank(d[j])
                /\ Cardinality(ItemsOf(d, {"receive"})) = 1
                /\ (ItemsOf(d, {"rssi"}) # {}) = (last'.pkt.dBm # None)
                /\ loopQueue' = loopQueue \o last'.sched
     /\ \/ loopQueue # <<>> /\ loopQueue' = Tail(loopQueue)
        \/ /\ Len(loopQueue') >= Len(loopQueue)
           /\ SubSeq(loopQueue', 1, Len(loopQueue)) = loopQueue]_vars
\* one telegram scheduled all four deliveries
C33_Witness ==
  /\ last.op = "callback"
  /\ last.outcome = "dispatched"
  /\ Len(Deliveries(last.sched)) = 4
  /\ loopQueue = last.sched
\* the deliveries of a second telegram queue up behind those of the first
C33_QueuedWitness ==
  /\ last.op = "callback"
  /\ last.outcome = "dispatched"
  /\ Len(Deliveries(last.sched)) = 3
  /\ Len(loopQueue) > Len(last.sched)
  /\ loopQueue[1].device_id = Sensor

(***************************************************************************)
(* The invalid-packet counter across valid telegrams (SpecReset)           *)
(***************************************************************************)
\* device_warnings of a device: the entry is created with both flags False
FlagsOf(warnings, device_id) ==
  Get(warnings, format_device_id_hex(device_id), NewWarnings)

C34_ResetWitness ==
  /\ IsRejected(last)
  /\ last.reset
  /\ last.pkt.sender = Sensor
  /\ received = _dongle_reset_threshold + 1
  /\ Len(streak) = 1

(***************************************************************************)
(* The dongle reset and learning mode (SpecLearning)                       *)
(***************************************************************************)
\* C38: a telegram whose rejection triggers the dongle reset, the reset
\* command handed to the loop, leaves the teach-in flag and the stored
\* learning-timer handle as they were and emits no learning-mode-changed
\* notification, neither through the loop nor directly.
C38_ResetKeepsLearning ==
  /\ [][(IsCallback(last') /\ last'.reset)
          => /\ teach_in' = teach_in
             /\ _learning_task' = _learning_task
             /\ notified' = notified
             /\ LearningNotes(last'.sched) = {}
             /\ last'.direct = <<>>]_vars
  /\ [][(ioThread = "finally" /\ ioThread' = "idle")
          => _learning_task' = _learning_task]_vars

(***************************************************************************)
(* The bound of the invalid-packet counter (SpecFaults)                    *)
(***************************************************************************)
\* C39: whenever the I/O thread is not inside callback(), the invalid-packet
\* count of every device is at most 4: the count that reaches the threshold
\* of 5 was cleared by the reset of the same invocation.
C39_CounterBound ==
  ioThread = "idle"
    => \A k \in DOMAIN _device_invalid_packet_count :
         _device_invalid_packet_count[k] \in 0..(_dongle_reset_threshold - 1)

(***************************************************************************)
(* Platform entities: value_changed of the dynamic switch and of the       *)
(* dynamic binary sensor, on telegrams the dongle has decoded              *)
(***************************************************************************)
\* Python values met in packet.parsed: a number, a string that is no
\* numeral (an enum description), None
Num(n) == [t |-> "num", n |-> n]
Text == [t |-> "str", n |-> 0]
Missing == [t |-> "none", n |-> 0]

\* truth value of a Python value
bool(v) == v.t = "str" \/ (v.t = "num" /\ v.n # 0)
\* a or b
or_else(a, b) == IF bool(a) THEN a ELSE b
\* int(v) raises ValueError for the description, TypeError for None
int_raises(v) == v.t # "num"

\* one entry of packet.parsed, and the result of parsed.get(name) without one
ParsedField(raw, value, out_of_range) ==
  [raw_value |-> raw, value |-> value, out_of_range |-> out_of_range,
   present |-> TRUE]
NoParsedField ==
  [raw_value |-> Missing, value |-> Missing, out_of_range |-> FALSE,
   present |-> FALSE]

FieldNames ==
  {"IO", "CH", "IO_NUM", "OV", "OUT", "OUTPUT", "CMD", "DT", "MR", "DIV", "CO"}

\* packet.parsed with the entries of f
ParsedOf(f) ==
  [name \in FieldNames |-> IF name \in DOMAIN f THEN f[name] ELSE NoParsedField]
\* not packet.parsed
NothingParsed(parsed) == \A name \in FieldNames : ~parsed[name].present

\* parsed.get(a) or parsed.get(b) or parsed.get(c): an entry is a non-empty
\* dict and so true
first_present(parsed, names) ==
  IF parsed[names[1]].present THEN parsed[names[1]]
  ELSE IF parsed[names[2]].present THEN parsed[names[2]]
  ELSE parsed[names[3]]

\* the state an entity's value_changed leaves: the raised flag tells that an
\* exception left the method
Changed(entity, is_on) ==
  [entity |-> [entity EXCEPT !.is_on = is_on], scheduled |-> TRUE,
   raised |-> FALSE]
Kept(entity) == [entity |-> entity, scheduled |-> FALSE, raised |-> FALSE]
Raised(entity) == [entity |-> entity, scheduled |-> FALSE, raised |-> TRUE]

RORG_VLD == 210

\* a base implementation that reads no status telegram
status_not_read(sw, packet) == Kept(sw)

\* EnOceanSwitch.value_changed
switch_value_changed(sw, packet) ==
  LET parsed == packet.parsed
  IN
  IF packet.data0 = RORG_BS4
  THEN \* power meter telegram; parsed["DT"] raises KeyError without entry
       IF ~(parsed["DT"].present /\ parsed["MR"].present /\ parsed["DIV"].present)
       THEN IF parsed["DT"].present /\ parsed["DT"].raw_value # Num(1)
            THEN Kept(sw) ELSE Raised(sw)
       ELSE IF parsed["DT"].raw_value = Num(1)
               /\ parsed["MR"].raw_value.n > 10 ^ parsed["DIV"].raw_value.n
            THEN Changed(sw, TRUE)
            ELSE Kept(sw)
  ELSE IF packet.data0 = RORG_VLD
  THEN IF ~parsed["CMD"].present
       THEN Raised(sw)
       ELSE IF parsed["CMD"].raw_value # Num(4)
       THEN Kept(sw)
       ELSE IF ~(parsed["IO"].present /\ parsed["OV"].present)
       THEN Raised(sw)
       ELSE IF parsed["IO"].raw_value = sw.channel
       THEN Changed(sw, parsed["OV"].raw_value.n > 0)
       ELSE Kept(sw)
  ELSE Kept(sw)

\* DynamicEnOceanSwitch.value_changed
dynamic_switch_value_changed(sw, packet) ==
  LET parsed == packet.parsed
      ch_entry == first_present(parsed, <<"IO", "CH", "IO_NUM">>)
      out_entry == first_present(parsed, <<"OV", "OUT", "OUTPUT">>)
      ch == IF ch_entry.present
            THEN or_else(ch_entry.raw_value, ch_entry.value) ELSE Missing
      out == IF out_entry.present
             THEN or_else(out_entry.raw_value, out_entry.value) ELSE Missing
  IN
  IF packet.short
  THEN Kept(sw)
  ELSE IF NothingParsed(parsed) \/ ~sw.fields
  THEN switch_value_changed(sw, packet)
  ELSE IF /\ ch # Missing /\ out # Missing
          /\ ~int_raises(ch) /\ ~int_raises(sw.channel)
          /\ ch.n = sw.channel.n
          /\ ~int_raises(out)
  THEN Changed(sw, out.n > 0)
  ELSE switch_value_changed(sw, packet)

\* DynamicEnoceanEntity._get_parsed_value
_get_parsed_value(packet, field_name) ==
  LET field_data == packet.parsed[field_name]
  IN IF NothingParsed(packet.parsed) THEN Missing
     ELSE IF ~field_data.present THEN Missing
     ELSE IF field_data.out_of_range THEN Missing
     ELSE IF field_data.value.t = "num" THEN field_data.value
     ELSE field_data.raw_value

\* DynamicEnOceanBinarySensor.value_changed: schedule_update_ha_state() is
\* a statement of the else branch
binary_sensor_value_changed(bs, packet) ==
  IF NothingParsed(packet.parsed) \/ bs.data_field = ""
  THEN Kept(bs)
  ELSE LET value == _get_parsed_value(packet, bs.data_field)
       IN IF value # Missing
          THEN [entity |-> [bs EXCEPT !.is_on = bool(value)],
                scheduled |-> FALSE, raised |-> FALSE]
          ELSE Changed(bs, FALSE)

(***************************************************************************)
(* SpecEntities: entities of one device and the telegrams delivered to    *)
(* them                                                                    *)
(***************************************************************************)
MaxUpdates == 2
MaxChannel == 2

Channels == 0..MaxChannel
OutputValues == {0, 1, 100}

\* the "value" of a decoded entry: the number, an enum description, none
ValuesOf(raw) == {Num(raw), Text, Missing}

EntityTelegram(data0, short, f) ==
  [data0 |-> data0, short |-> short, parsed |-> ParsedOf(f)]

\* actuator status responses (VLD telegram, CMD 4) for channel x, output o
StatusTelegram(io, ov) ==
  EntityTelegram(RORG_VLD, FALSE,
    ("IO" :> io) @@ ("OV" :> ov) @@ ("CMD" :> ParsedField(Num(4), Num(4), FALSE)))

DecodedFields(raws) ==
  UNION {{ParsedField(Num(raw), v, FALSE) : v \in ValuesOf(raw)} : raw \in raws}

StatusTelegrams ==
  {StatusTelegram(io, ov) :
     io \in DecodedFields(Channels), ov \in DecodedFields(OutputValues)}

\* a measurement response (CMD 7, no output value), a power meter telegram,
\* contact telegrams, a telegram nothing was decoded of, a short one
OtherTelegrams ==
  {EntityTelegram(RORG_VLD, FALSE,
     ("IO" :> ParsedField(Num(1), Text, FALSE))
       @@ ("CMD" :> ParsedField(Num(7), Num(7), FALSE))),
   EntityTelegram(RORG_BS4, FALSE,
     ("DT" :> ParsedField(Num(1), Text, FALSE))
       @@ ("MR" :> ParsedField(Num(20), Num(20), FALSE))
       @@ ("DIV" :> ParsedField(Num(1), Text, FALSE))),
   EntityTelegram(RORG_VLD, FALSE, <<>>),
   EntityTelegram(RORG_VLD, TRUE, <<>>)}
  \cup {EntityTelegram(213, FALSE, ("CO" :> ParsedField(Num(raw), v, oor))) :
          raw \in {0, 1}, v \in {Text, Missing}, oor \in BOOLEAN}

EntityTelegrams == StatusTelegrams \cup OtherTelegrams

Switches ==
  {[kind |-> "switch", channel |-> c, fields |-> f, is_on |-> FALSE,
    data_field |-> "switch"] :
     c \in {Num(x) : x \in Channels}, f \in BOOLEAN}
BinarySensors ==
  {[kind |-> "binary_sensor", channel |-> Missing, fields |-> TRUE,
    is_on |-> FALSE, data_field |-> d] : d \in {"CO", "IO"}}

InitEntities ==
  /\ teach_in = FALSE
  /\ automatic_answer = FALSE
  /\ base_id = DongleBaseId
  /\ _device_profiles = LoadedProfiles
  /\ _devices_with_entities = {Sensor}
  /\ _discovered_sensors = {}
  /\ _device_invalid_packet_count = EmptyMap
  /\ _device_warnings = EmptyMap
  /\ _learning_task = 0
  /\ timers = <<>>
  /\ stored = profiles_to_save(LoadedProfiles)
  /\ setupPc = "loaded"
  /\ loopQueue = <<>>
  /\ handlers = <<>>
  /\ received = 0
  /\ persisted = [written |-> TRUE, profiles |-> LoadedProfiles]
  /\ device_registry = {format_device_id_hex_underscore(Sensor)}
  /\ streak = <<>>
  /\ ioThread = "idle"
  /\ learn_switch = <<>>
  /\ notified = <<>>
  /\ diagnosed = {}
  /\ last \in {[NoLast EXCEPT !.entity = <<e>>] :
                 e \in Switches \cup BinarySensors}

\* the dispatcher hands a telegram of the device to the entity
EntityUpdate(kind, r, packet) ==
  /\ last.entity # <<>>
  /\ last.entity[1].kind = kind
  /\ received < MaxUpdates
  /\ received' = received + 1
  /\ last' = [NoLast EXCEPT !.op = "value_changed", !.entity = <<r.entity>>,
                            !.before = last.entity, !.telegram = <<packet>>,
                            !.raised = r.raised,
                            !.value_changed = r.scheduled]
  /\ UNCHANGED <<dongleVars, storage, setupPc, loopQueue, handlers, streak,
                 learnVars>>

SwitchValueChanged ==
  \E packet \in EntityTelegrams :
    EntityUpdate("switch",
                 dynamic_switch_value_changed(last.entity[1], packet), packet)

BinarySensorValueChanged ==
  \E packet \in EntityTelegrams :
    EntityUpdate("binary_sensor",
                 binary_sensor_value_changed(last.entity[1], packet), packet)

NextEntities ==
  \/ SwitchValueChanged
  \/ BinarySensorValueChanged

SpecEntities == InitEntities /\ [][NextEntities]_vars

IsStatus(packet) ==
  /\ packet.data0 = RORG_VLD
  /\ ~packet.short
  /\ packet.parsed["CMD"].raw_value = Num(4)
  /\ packet.parsed["IO"].present
  /\ packet.parsed["OV"].present

Updated(kind) ==
  /\ last.op = "value_changed"
  /\ last.entity[1].kind = kind

\* C37: after value_changed of a dynamic switch on channel c for a status
\* telegram of channel x and output value o, is_on is (o > 0) when x = c and
\* what it was before when x # c, and no exception left the method; for
\* every c, x and o, 0 included.
C37_SwitchFollowsOwnChannel ==
  (Updated("switch") /\ IsStatus(last.telegram[1]))
    => LET packet == last.telegram[1]
           x == packet.parsed["IO"].raw_value
           o == packet.parsed["OV"].raw_value
       IN /\ ~last.raised
          /\ last.entity[1].is_on
               = IF x = last.before[1].channel THEN o.n > 0
                 ELSE last.before[1].is_on
\* a switch on channel 0 that was on is switched off by a status telegram
\* for channel 0 with output value 0, read with the decoded fields
C37_Witness ==
  /\ Updated("switch")
  /\ IsStatus(last.telegram[1])
  /\ last.before[1].fields
  /\ last.before[1].channel = Num(0)
  /\ last.before[1].is_on
  /\ last.telegram[1].parsed["IO"].raw_value = Num(0)
  /\ last.telegram[1].parsed["OV"].raw_value = Num(0)
  /\ ~last.entity[1].is_on

\* C40: whenever value_changed of a dynamic binary sensor processed a decoded
\* telegram and set is_on, from a field value that is present or absent, a
\* state update was scheduled.
C40_EveryUpdatePublished ==
  (/\ Updated("binary_sensor")
   /\ ~NothingParsed(last.telegram[1].parsed))
    => last.value_changed

(***************************************************************************)
(* SpecOverlay: _overlay_mapping_overrides on lists of descriptors and     *)
(* mapping entries                                                         *)
(***************************************************************************)
MaxDescriptors == 2
MaxMappings == 2

Celsius == <<"C">>

Descriptors ==
  {EEPEntityDef(TMP, "sensor", 0, 40),
   EEPEntityDef(VOL, "number", None, None),
   EEPEntityDef(R1, "button", None, None)}

\* config sections: empty, a unit and a minimum of 0, a unit alone, a
\* minimum that is no number
Configs ==
  {<<<<>>, <<>>>>, <<Celsius, <<"0">>>>, <<Celsius, <<>>>>, <<<<>>, Unparsable>>}

\* entries with a known, an unknown and no component
MappingDefs ==
  {MappingDef(name, component, config[1], config[2]) :
     name \in {TMP, VOL, <<"D", "I", "A">>},
     component \in {"number", "climate", ""},
     config \in Configs}

\* the entries of a mapping are keyed by field name
DistinctNames(mapping) ==
  \A i, j \in 1..Len(mapping) : i # j => mapping[i].name # mapping[j].name

OverlayInputs ==
  {[NoLast EXCEPT !.fields = d, !.mapping = m] :
     d \in {<<>>} \cup SeqsUpTo(Descriptors, MaxDescriptors),
     m \in {m \in SeqsUpTo(MappingDefs, MaxMappings) : DistinctNames(m)}}

InitOverlay ==
  /\ teach_in = FALSE
  /\ automatic_answer = FALSE
  /\ base_id = DongleBaseId
  /\ _device_profiles = LoadedProfiles
  /\ _devices_with_entities = {}
  /\ _discovered_sensors = {}
  /\ _device_invalid_packet_count = EmptyMap
  /\ _device_warnings = EmptyMap
  /\ _learning_task = 0
  /\ timers = <<>>
  /\ stored = profiles_to_save(LoadedProfiles)
  /\ setupPc = "loaded"
  /\ loopQueue = <<>>
  /\ handlers = <<>>
  /\ received = 0
  /\ persisted = [written |-> TRUE, profiles |-> LoadedProfiles]
  /\ device_registry = {format_device_id_hex_underscore(Sensor)}
  /\ streak = <<>>
  /\ ioThread = "idle"
  /\ learn_switch = <<>>
  /\ notified = <<>>
  /\ diagnosed = {}
  /\ last \in OverlayInputs

Overlay ==
  /\ last.op = "none"
  /\ last' = [last EXCEPT
                !.op = "_overlay_mapping_overrides",
                !.entities = _overlay_mapping_overrides(last.fields, last.mapping)]
  /\ UNCHANGED <<dongleVars, storage, setupPc, loopQueue, handlers, received,
                 streak, learnVars>>

NextOverlay == Overlay

SpecOverlay == InitOverlay /\ [][NextOverlay]_vars

\* the entries of the mapping with the descriptor's data_field as name
EntriesFor(mapping, data_field) ==
  {k \in 1..Len(mapping) : mapping[k].name = data_field}
\* the names of the mapping no descriptor carries
Unmatched(fields, mapping) ==
  {mapping[k].name : k \in 1..Len(mapping)}
    \ {fields[i].data_field : i \in 1..Len(fields)}

\* what a descriptor carries of a mapping entry: a component that names an
\* entity type, a unit, a minimum that is a number
Carries(entity, mapping_def) ==
  /\ mapping_def.component \in EntityTypes
       => entity.entity_type = mapping_def.component
  /\ mapping_def.unit # <<>> => entity.unit = mapping_def.unit
  /\ (mapping_def.min # <<>> /\ ~float_raises(mapping_def.min))
       => entity.min_value = float(mapping_def.min)

====
